---- MODULE Spec2Model ----
(***************************************************************************)
(* The browser client of the file-hosting service: the upload queue and    *)
(* the client-side file registry, as a state machine.  Two renderers of    *)
(* the same client exist in the repository: the table renderer             *)
(* (src/static/js/app.js) and the card renderer (src/unnamed/part_000).    *)
(* The variable `variant` says which of the two scripts the page runs.     *)
(*                                                                         *)
(* JavaScript objects are functions from field names to values; a field    *)
(* that is absent is not in the DOMAIN (JS undefined).  Objects have       *)
(* identity: every object carries a hidden field "ref", and an in-place    *)
(* assignment to an object is seen through every reference to it.          *)
(***************************************************************************)
EXTENDS Integers, Sequences, FiniteSets, TLC

VARIABLES
  variant,      \* "table" (app.js) or "card" (part_000)
  files,        \* state.files: sequence of file objects
  totalSize,    \* state.totalSize
  capacity,     \* state.capacity
  preferences,  \* state.preferences (table variant only)
  dom,          \* the rendered rows/cards, whose handlers the user can trigger
  queue,        \* state.queue: sequence of queue items
  xhr,          \* upload requests in flight: records [id, loaded, total]
  timers,       \* ids of queue items with a scheduled removal timer
  fetches,      \* fetch() calls in flight with the continuation awaiting them
  location,     \* window.location.href
  toasts,       \* notifications emitted by the last handler, in order
  sent,         \* network requests issued by the last handler, in order
  ret,          \* what ensureShareLink returned in the last handler, if it did
  ev,           \* the last handler that ran, with its inputs
  server,       \* the files the server holds, in the order it lists them
  answers       \* per fetch in flight: what the server has answered so far

vars == <<variant, files, totalSize, capacity, preferences, dom, queue, xhr,
          timers, fetches, location, toasts, sent, ret, ev, server, answers>>

registryVars == <<files, totalSize, capacity, preferences, dom>>
queueVars == <<queue, xhr, timers>>

-----------------------------------------------------------------------------
(* Bounds of the model *)

MaxQueue == 2       \* queue items alive at once
MaxInflight == 2    \* fetch() calls in flight at once

-----------------------------------------------------------------------------
(* JavaScript values *)

\* JS null in a string-valued field
NULL == "<null>"
\* a JSON number found where a string is expected
NUM == "<number>"

\* obj.k, with "<undefined>" for an absent string field
Get(obj, k) == IF k \in DOMAIN obj THEN obj[k] ELSE "<undefined>"

\* a || b on string-valued operands
Or(a, b) == IF a \in {"<null>", "<undefined>", ""} THEN b ELSE a

\* obj.k = v
Put(obj, k, v) == [f \in DOMAIN obj \cup {k} |-> IF f = k THEN v ELSE obj[f]]

\* the value of an absent field
UNDEFINED == "<undefined>"

\* truthiness of a string-valued field
Truthy(obj, k) == k \in DOMAIN obj /\ obj[k] \notin {NULL, UNDEFINED, ""}

\* truthiness of a boolean-valued field
TruthyB(obj, k) == k \in DOMAIN obj /\ obj[k]

\* (current.size || 0)
SizeOf(obj) == IF "size" \in DOMAIN obj THEN obj.size ELSE 0

\* the fields of an object without its identity
Strip(obj) == [f \in DOMAIN obj \ {"ref"} |-> obj[f]]

RECURSIVE SumSizes(_)
\* state.files.reduce((total, current) => total + (current.size || 0), 0)
SumSizes(s) == IF s = <<>> THEN 0 ELSE SizeOf(Head(s)) + SumSizes(Tail(s))

\* findIndex by id; 0 stands for -1
FindIndex(s, id) ==
  IF \E i \in 1..Len(s) : Get(s[i], "id") = id
  THEN CHOOSE i \in 1..Len(s) :
         /\ Get(s[i], "id") = id
         /\ \A j \in 1..(i - 1) : Get(s[j], "id") # id
  ELSE 0

\* filter((entry) => entry.id !== id)
RECURSIVE FilterOutId(_, _)
FilterOutId(s, id) ==
  IF s = <<>> THEN <<>>
  ELSE IF Get(Head(s), "id") = id THEN FilterOutId(Tail(s), id)
       ELSE <<Head(s)>> \o FilterOutId(Tail(s), id)

Ids(s) == {Get(s[i], "id") : i \in 1..Len(s)}

-----------------------------------------------------------------------------
(* Constants of the program *)

\* const MAX_FILE_SIZE = 500 * 1024 * 1024
MAX_FILE_SIZE == 500 * 1024 * 1024

-----------------------------------------------------------------------------
(* File registry: objects, rendering, insert-or-update *)

Refs(s) == {s[i].ref : i \in 1..Len(s)}

\* the identity of a newly created object: one that no live reference holds
NewRef(avoid) == CHOOSE n \in 1..(Cardinality(avoid) + 1) : n \notin avoid

RECURSIVE NewObjects(_, _)
\* the objects JSON parsing creates for an array of descriptors
NewObjects(descs, avoid) ==
  IF descs = <<>> THEN <<>>
  ELSE LET r == NewRef(avoid)
       IN <<Put(Head(descs), "ref", r)>> \o
          NewObjects(Tail(descs), avoid \cup {r})

\* the captured object of a continuation that holds none
NoFile == [ref |-> 0]

\* the element insertOrUpdateFile(undefined) puts into an empty state.files:
\* unshift(undefined) runs, then the reduce throws on current.size
UndefinedEntry == [ref |-> 0, undefined |-> TRUE]

\* state.files holds undefined: every find, findIndex and filter whose
\* callback reads entry.id throws a TypeError
HasUndefined(fs) == \E i \in 1..Len(fs) : "undefined" \in DOMAIN fs[i]

\* the references the pending continuations hold
FetchRefs(fs) == {fs[i].file.ref : i \in 1..Len(fs)} \ {0}

\* iconForFile(file) throws a TypeError when content_type is truthy and not a
\* string: (file.content_type || "").toLowerCase()
IconThrows(file) == "content_type" \in DOMAIN file /\ file.content_type = NUM

\* what a row or card keeps of its file: the object its handlers close over
\* and the gating computed when it was built (file.can_manage !== false,
\* file.is_public, and for a card whether the share area is shown)
DomEntry(file) ==
  [file |-> file,
   canManage |-> ~("can_manage" \in DOMAIN file /\ file.can_manage = FALSE),
   isPublic |-> TruthyB(file, "is_public"),
   shareVisible |-> Truthy(file, "share_url")]

RECURSIVE RenderedRows(_)
\* the rows built before buildPreviewElement / createFileCard throws
RenderedRows(fs) ==
  IF fs = <<>> \/ IconThrows(Head(fs)) THEN <<>>
  ELSE <<DomEntry(Head(fs))>> \o RenderedRows(Tail(fs))

RenderThrows(fs) == \E i \in 1..Len(fs) : IconThrows(fs[i])

\* renderFiles(): clears the view, then builds one row or card per record
renderFiles(fs) == [dom |-> RenderedRows(fs), threw |-> RenderThrows(fs)]

\* a faulty insertOrUpdateFile: one that never looks for the record and
\* always unshifts
InsertedFilesUnshift(fs, file) == <<file>> \o fs

\* state.files after insertOrUpdateFile(file)
InsertedFiles(fs, file) ==
  LET existingIndex == FindIndex(fs, Get(file, "id"))
  IN IF existingIndex # 0 THEN [fs EXCEPT ![existingIndex] = file]
     ELSE <<file>> \o fs

\* a faulty recomputation: one that adds the size of the new record to the
\* total held before
InsertTotalIncremental(fs, file) == totalSize + SizeOf(file)

\* state.totalSize after insertOrUpdateFile(file)
InsertTotal(fs, file) == SumSizes(InsertedFiles(fs, file))

\* an assignment to the object o made visible through every reference
SyncSeq(s, o) == [i \in 1..Len(s) |-> IF s[i].ref = o.ref THEN o ELSE s[i]]

SyncFetches(fs, o) ==
  [i \in 1..Len(fs) |-> IF fs[i].file.ref = o.ref THEN [fs[i] EXCEPT !.file = o]
                        ELSE fs[i]]

\* the same for the rows and cards whose handlers close over o
SyncDom(d, o) ==
  [i \in 1..Len(d) |-> IF d[i].file.ref = o.ref THEN [d[i] EXCEPT !.file = o]
                       ELSE d[i]]

\* s without its i-th element
RemoveAt(s, i) == SubSeq(s, 1, i - 1) \o SubSeq(s, i + 1, Len(s))

-----------------------------------------------------------------------------
(* Upload queue *)

\* a fresh queue item id: `${Date.now()}-${Math.random()...}`, a token no
\* live item carries
FreshId(q) == CHOOSE n \in 1..(Len(q) + 1) : \A i \in 1..Len(q) : q[i].id # n

\* what ev records of a handler: the handler, the file id it is about, the
\* path it took, and the values it assigned to item.status, in order
NoEv == [op |-> "init", file |-> "", kind |-> "", marks |-> <<>>]

QueueItem(id, file) ==
  [id |-> id, file |-> file, status |-> "pending", progress |-> 0,
   message |-> "Bereit fuer Upload"]

\* a faulty size check: file.size >= MAX_FILE_SIZE
AcceptedBelowLimit(batch) ==
  SelectSeq(batch, LAMBDA f : f.size < MAX_FILE_SIZE)

RECURSIVE Accepted(_)
\* the candidates addFilesToQueue does not skip, in order
Accepted(batch) ==
  IF batch = <<>> THEN <<>>
  ELSE IF Head(batch).size > MAX_FILE_SIZE THEN Accepted(Tail(batch))
       ELSE <<Head(batch)>> \o Accepted(Tail(batch))

RECURSIVE PushAll(_, _)
\* state.queue.push(queueItem) for each accepted candidate
PushAll(q, acc) ==
  IF acc = <<>> THEN q
  ELSE PushAll(Append(q, QueueItem(FreshId(q), Head(acc))), Tail(acc))

RECURSIVE AddToasts(_)
\* the error toast of each skipped candidate
AddToasts(batch) ==
  IF batch = <<>> THEN <<>>
  ELSE IF Head(batch).size > MAX_FILE_SIZE
       THEN <<"error">> \o AddToasts(Tail(batch))
       ELSE AddToasts(Tail(batch))

\* a faulty addFilesToQueue: one that starts the upload of what it has queued
addFilesToQueueAutoStart(batch) ==
  /\ batch # <<>>
  /\ Len(queue) + Len(Accepted(batch)) <= MaxQueue
  /\ queue' = [i \in 1..Len(PushAll(queue, Accepted(batch))) |->
                 IF i > Len(queue)
                 THEN [PushAll(queue, Accepted(batch))[i] EXCEPT !.status = "uploading"]
                 ELSE queue[i]]
  /\ xhr' = xhr \cup {[id |-> queue'[i].id, loaded |-> 0, total |-> 2] :
                        i \in (Len(queue) + 1)..Len(queue')}
  /\ toasts' = AddToasts(batch) \o
               (IF Len(Accepted(batch)) > 0 THEN <<"success">> ELSE <<>>)
  /\ sent' = [i \in 1..Len(Accepted(batch)) |-> "upload"]
  /\ ev' = [NoEv EXCEPT !.op = "add"]
  /\ ret' = NoFile
  /\ UNCHANGED <<variant, registryVars, timers, fetches, location>>

\* addFilesToQueue(fileList), called with a non-empty list by both the
\* file-input change handler and the drop handler
addFilesToQueue(batch) ==
  /\ batch # <<>>
  /\ Len(queue) + Len(Accepted(batch)) <= MaxQueue
  /\ queue' = PushAll(queue, Accepted(batch))
  /\ toasts' = AddToasts(batch) \o
               (IF Len(Accepted(batch)) > 0 THEN <<"success">> ELSE <<>>)
  /\ sent' = <<>>
  /\ ev' = [NoEv EXCEPT !.op = "add"]
  /\ ret' = NoFile
  /\ UNCHANGED <<variant, registryVars, xhr, timers, fetches, location>>

\* a faulty remove handler: one that forgets the status check
removeQueueItemAnyStatus(i) ==
  /\ i \in 1..Len(queue)
  /\ queue' = SelectSeq(queue, LAMBDA it : it.id # queue[i].id)
  /\ toasts' = <<>>
  /\ sent' = <<>>
  /\ ev' = [NoEv EXCEPT !.op = "remove",
                        !.kind = queue[i].status]
  /\ ret' = NoFile
  /\ UNCHANGED <<variant, registryVars, xhr, timers, fetches, location>>

\* the click handler of a queue row's remove button
removeQueueItem(i) ==
  /\ i \in 1..Len(queue)
  /\ IF queue[i].status # "pending"
     THEN /\ toasts' = <<"info">>
          /\ UNCHANGED queue
     ELSE /\ queue' = SelectSeq(queue, LAMBDA it : it.id # queue[i].id)
          /\ toasts' = <<>>
  /\ sent' = <<>>
  /\ ev' = [NoEv EXCEPT !.op = "remove",
                        !.kind = queue[i].status]
  /\ ret' = NoFile
  /\ UNCHANGED <<variant, registryVars, xhr, timers, fetches, location>>

\* JSON.parse(xhr.responseText || "{}"): an empty body parses as {}
JSONparse(text) ==
  [threw |-> text.t = "text",
   val |-> IF text.t = "empty" THEN [t |-> "object"] ELSE text]

\* response.json(): an empty body does not parse
ResponseJson(text) == [threw |-> text.t \in {"text", "empty"}, val |-> text]

IsOk(status) == status >= 200 /\ status < 300

\* whether response.files?.[0] is an object
HasUploadedFile(val) == "files" \in DOMAIN val /\ Len(val.files) > 0

\* the object of response.files[0], created by JSON.parse
UploadedFile(val, fs, pending) ==
  LET existingIndex == FindIndex(fs, Get(val.files[1], "id"))
      kept == IF existingIndex # 0 THEN RemoveAt(fs, existingIndex) ELSE fs
  IN Put(val.files[1], "ref", NewRef(Refs(kept) \cup FetchRefs(pending)))

\* a faulty load handler: one without the 401 check
LoadKindWithout401(status, body, fs, pending) ==
  IF JSONparse(body).threw THEN "parse-error"
  ELSE IF JSONparse(body).val.t = "null" THEN "type-error"
  ELSE IF ~IsOk(status) THEN "http-error"
  ELSE IF ~HasUploadedFile(JSONparse(body).val) THEN "refresh"
  ELSE "merged"

\* which path the load handler of uploadQueueItem takes
LoadKind(status, body, fs, pending) ==
  IF status = 401 THEN "redirect"
  ELSE IF JSONparse(body).threw THEN "parse-error"
  ELSE IF JSONparse(body).val.t = "null" THEN "type-error"
  ELSE IF ~IsOk(status) THEN "http-error"
  ELSE IF ~HasUploadedFile(JSONparse(body).val) THEN "refresh"
  ELSE IF HasUndefined(fs) THEN "insert-threw"
  ELSE IF RenderThrows(InsertedFiles(fs,
            UploadedFile(JSONparse(body).val, fs, pending)))
       THEN "merged-render-threw"
  ELSE "merged"

\* item.message on the error paths of the load handler
LoadErrorMessage(kind, body) ==
  IF kind = "http-error" /\ Truthy(JSONparse(body).val, "message")
  THEN JSONparse(body).val.message
  ELSE "Der Upload ist fehlgeschlagen."

\* the queue with the fields of item id assigned
SetItem(q, id, status, progress, message) ==
  [i \in 1..Len(q) |->
     IF q[i].id = id
     THEN [q[i] EXCEPT !.status = status, !.progress = progress,
                       !.message = message]
     ELSE q[i]]

ItemOf(q, id) == q[CHOOSE i \in 1..Len(q) : q[i].id = id]

HasItem(q, id) == \E i \in 1..Len(q) : q[i].id = id

RefreshFetch(flag) == [op |-> "refresh", file |-> NoFile, fid |-> "", flag |-> flag]

\* the values the load handler assigns to item.status, in order: the 2xx
\* branch assigns "success" before it merges and renders, and the catch
\* block assigns "error" when anything inside the try block throws
StatusMarks(kind) ==
  CASE kind = "redirect" -> <<>>
    [] kind \in {"parse-error", "type-error", "http-error"} -> <<"error">>
    [] kind \in {"refresh", "merged"} -> <<"success">>
    [] kind \in {"insert-threw", "merged-render-threw"} -> <<"success", "error">>

\* the last element of a non-empty sequence
Last(s) == s[Len(s)]

XhrIds == {x.id : x \in xhr}

XhrOf(id) == CHOOSE x \in xhr : x.id = id

\* a faulty percentage: one that forgets to divide by event.total
PercentUndivided(loaded, total) == loaded * 100

\* (event.loaded / event.total) * 100, exact for the totals of the model
Percent(loaded, total) == (loaded * 100) \div total

\* a faulty start-upload handler: one whose forEach forgets the status test,
\* so that every queued item is sent
startUploadEveryItem(total) ==
  /\ ev' = [NoEv EXCEPT !.op = "start",
                        !.marks = IF \E i \in 1..Len(queue) : queue[i].status = "pending"
                                  THEN <<"uploading">> ELSE <<>>]
  /\ IF ~\E i \in 1..Len(queue) : queue[i].status = "pending"
     THEN /\ toasts' = <<"info">>
          /\ sent' = <<>>
          /\ UNCHANGED <<queue, xhr>>
     ELSE /\ queue' = [i \in 1..Len(queue) |->
                         [queue[i] EXCEPT !.status = "uploading",
                                          !.progress = 0,
                                          !.message = "Upload laeuft..."]]
          /\ xhr' = xhr \cup
                     {[id |-> queue[i].id, loaded |-> 0, total |-> total] :
                        i \in 1..Len(queue)}
          /\ toasts' = <<>>
          /\ sent' = [i \in 1..Len(queue) |-> "upload"]
  /\ ret' = NoFile
  /\ UNCHANGED <<variant, registryVars, timers, fetches, location>>

\* uploadQueueItem(item) for every pending item: the start-upload click handler
startUpload(total) ==
  /\ ev' = [NoEv EXCEPT !.op = "start",
                        !.marks = IF \E i \in 1..Len(queue) : queue[i].status = "pending"
                                  THEN <<"uploading">> ELSE <<>>]
  /\ IF ~\E i \in 1..Len(queue) : queue[i].status = "pending"
     THEN /\ toasts' = <<"info">>
          /\ sent' = <<>>
          /\ UNCHANGED <<queue, xhr>>
     ELSE /\ queue' = [i \in 1..Len(queue) |->
                         IF queue[i].status = "pending"
                         THEN [queue[i] EXCEPT !.status = "uploading",
                                               !.progress = 0,
                                               !.message = "Upload laeuft..."]
                         ELSE queue[i]]
          /\ xhr' = xhr \cup
                     {[id |-> queue[i].id, loaded |-> 0, total |-> total] :
                        i \in {j \in 1..Len(queue) : queue[j].status = "pending"}}
          /\ toasts' = <<>>
          /\ sent' = [i \in 1..Cardinality({j \in 1..Len(queue) :
                                              queue[j].status = "pending"}) |-> "upload"]
  /\ ret' = NoFile
  /\ UNCHANGED <<variant, registryVars, timers, fetches, location>>

\* the progress listener of xhr.upload
uploadProgress(id, loaded, lengthComputable) ==
  /\ id \in XhrIds
  /\ loaded >= XhrOf(id).loaded
  /\ loaded <= XhrOf(id).total
  /\ xhr' = (xhr \ {XhrOf(id)}) \cup {[XhrOf(id) EXCEPT !.loaded = loaded]}
  /\ queue' = IF lengthComputable
              THEN [i \in 1..Len(queue) |->
                      IF queue[i].id = id
                      THEN [queue[i] EXCEPT !.progress = Percent(loaded, XhrOf(id).total)]
                      ELSE queue[i]]
              ELSE queue
  /\ toasts' = <<>>
  /\ sent' = <<>>
  /\ ev' = [NoEv EXCEPT !.op = "progress"]
  /\ ret' = NoFile
  /\ UNCHANGED <<variant, registryVars, timers, fetches, location>>

\* the load listener of the upload request
uploadLoad(id, status, body) ==
  LET kind == LoadKind(status, body, files, fetches)
      val == JSONparse(body).val
  IN
  /\ id \in XhrIds
  /\ kind = "refresh" => Len(fetches) < MaxInflight
  /\ xhr' = xhr \ {XhrOf(id)}
  /\ ev' = [NoEv EXCEPT !.op = "load",
                        !.kind = kind,
                        !.marks = StatusMarks(kind)]
  /\ ret' = NoFile
  /\ variant' = variant
  /\ CASE kind = "redirect" ->
            /\ location' = "/login"
            /\ toasts' = <<>>
            /\ sent' = <<>>
            /\ UNCHANGED <<queue, registryVars, timers, fetches>>
       [] kind \in {"parse-error", "type-error", "http-error"} ->
            /\ queue' = SetItem(queue, id, "error", ItemOf(queue, id).progress,
                                LoadErrorMessage(kind, body))
            /\ toasts' = <<"error">>
            /\ sent' = <<>>
            /\ UNCHANGED <<registryVars, timers, fetches, location>>
       [] kind = "refresh" ->
            /\ queue' = SetItem(queue, id, "success", 100, "Upload abgeschlossen.")
            /\ toasts' = <<"success">>
            /\ fetches' = Append(fetches, RefreshFetch(FALSE))
            /\ sent' = <<"list">>
            /\ timers' = timers \cup {id}
            /\ UNCHANGED <<registryVars, location>>
       [] kind = "insert-threw" ->
            /\ queue' = SetItem(queue, id, "error", 100,
                                "Der Upload ist fehlgeschlagen.")
            /\ toasts' = <<"success", "error">>
            /\ sent' = <<>>
            /\ UNCHANGED <<registryVars, timers, fetches, location>>
       [] kind \in {"merged", "merged-render-threw"} ->
            LET uploadedFile == UploadedFile(val, files, fetches)
            IN
            /\ files' = InsertedFiles(files, uploadedFile)
            /\ totalSize' = InsertTotal(files, uploadedFile)
            /\ dom' = renderFiles(files').dom
            /\ queue' = SetItem(queue, id, Last(StatusMarks(kind)), 100,
                                IF kind = "merged" THEN "Upload abgeschlossen."
                                ELSE "Der Upload ist fehlgeschlagen.")
            /\ toasts' = IF kind = "merged" THEN <<"success">>
                         ELSE <<"success", "error">>
            /\ timers' = IF kind = "merged" THEN timers \cup {id} ELSE timers
            /\ sent' = <<>>
            /\ UNCHANGED <<capacity, preferences, fetches, location>>

\* a faulty error listener: one that shows the toast and forgets the item
uploadErrorToastOnly(id) ==
  /\ id \in XhrIds
  /\ xhr' = xhr \ {XhrOf(id)}
  /\ queue' = queue
  /\ toasts' = <<"error">>
  /\ sent' = <<>>
  /\ ev' = [NoEv EXCEPT !.op = "xhr-error", !.marks = <<>>]
  /\ ret' = NoFile
  /\ UNCHANGED <<variant, registryVars, timers, fetches, location>>

\* the error listener of the upload request
uploadError(id) ==
  /\ id \in XhrIds
  /\ xhr' = xhr \ {XhrOf(id)}
  /\ queue' = SetItem(queue, id, "error", ItemOf(queue, id).progress,
                      "Netzwerkfehler beim Upload.")
  /\ toasts' = <<"error">>
  /\ sent' = <<>>
  /\ ev' = [NoEv EXCEPT !.op = "xhr-error", !.marks = <<"error">>]
  /\ ret' = NoFile
  /\ UNCHANGED <<variant, registryVars, timers, fetches, location>>

\* a faulty timer callback: one that clears every finished item instead of
\* the one it was set for
queueRemovalTimerFinished(id) ==
  /\ id \in timers
  /\ timers' = timers \ {id}
  /\ queue' = IF HasItem(queue, id) /\ ItemOf(queue, id).status = "success"
              THEN SelectSeq(queue, LAMBDA it : it.status \notin {"success", "error"})
              ELSE queue
  /\ toasts' = <<>>
  /\ sent' = <<>>
  /\ ev' = [NoEv EXCEPT !.op = "timer"]
  /\ ret' = NoFile
  /\ UNCHANGED <<variant, registryVars, xhr, fetches, location>>

\* a faulty timer callback: one that splices at index 0 instead of the index
\* it has found
queueRemovalTimerHead(id) ==
  /\ id \in timers
  /\ timers' = timers \ {id}
  /\ queue' = IF HasItem(queue, id) /\ ItemOf(queue, id).status = "success"
              THEN Tail(queue)
              ELSE queue
  /\ toasts' = <<>>
  /\ sent' = <<>>
  /\ ev' = [NoEv EXCEPT !.op = "timer"]
  /\ ret' = NoFile
  /\ UNCHANGED <<variant, registryVars, xhr, fetches, location>>

\* the timer callback of scheduleQueueRemoval(item)
queueRemovalTimer(id) ==
  /\ id \in timers
  /\ timers' = timers \ {id}
  /\ queue' = IF HasItem(queue, id) /\ ItemOf(queue, id).status = "success"
              THEN SelectSeq(queue, LAMBDA it : it.id # id)
              ELSE queue
  /\ toasts' = <<>>
  /\ sent' = <<>>
  /\ ev' = [NoEv EXCEPT !.op = "timer"]
  /\ ret' = NoFile
  /\ UNCHANGED <<variant, registryVars, xhr, fetches, location>>

-----------------------------------------------------------------------------
(* Full refresh *)

\* a faulty continuation: one that never calls handleUnauthorizedResponse
FetchKindWithout401(status) ==
  IF status = 0 THEN "network"
  ELSE IF ~IsOk(status) THEN "http-error"
  ELSE "ok"

\* how a fetch() continuation resumes: the promise rejects (status 0), the
\* response is a 401, another non-2xx status, or 2xx
FetchKind(status) ==
  IF status = 0 THEN "network"
  ELSE IF status = 401 THEN "redirect"
  ELSE IF ~IsOk(status) THEN "http-error"
  ELSE "ok"

\* which path refreshFiles takes once its fetch settles
RefreshKind(status, body, pending) ==
  IF FetchKind(status) # "ok" THEN FetchKind(status)
  ELSE IF ResponseJson(body).threw THEN "parse-error"
  ELSE IF body.t = "null" THEN "type-error"
  ELSE IF RenderThrows(IF "files" \in DOMAIN body THEN body.files ELSE <<>>)
       THEN "replaced-render-threw"
  ELSE "replaced"

\* a faulty refresh: one that never reads the preferences of the listing
RefreshedPreferencesIgnored(prefs, data) == prefs

\* state.preferences after the preferences block of refreshFiles (app.js)
RefreshedPreferences(prefs, data) ==
  IF "preferences" \notin DOMAIN data THEN prefs
  ELSE [hideMediaDefault |-> TruthyB(data.preferences, "hide_media_default"),
        copyUrlMode |-> IF Truthy(data.preferences, "copy_url_mode")
                        THEN data.preferences.copy_url_mode
                        ELSE prefs.copyUrlMode]

\* a faulty refresh: one that reads and assigns the body before it looks at
\* response.ok
RefreshedFilesEager(kind, data, pending) ==
  IF kind \in {"http-error", "replaced", "replaced-render-threw"}
     /\ "files" \in DOMAIN data
  THEN NewObjects(data.files, FetchRefs(pending))
  ELSE IF kind \in {"replaced", "replaced-render-threw"} THEN <<>> ELSE files

\* state.files after refreshFiles: data.files || [] on success, else untouched
RefreshedFiles(kind, data, pending) ==
  IF kind \notin {"replaced", "replaced-render-threw"} THEN files
  ELSE IF "files" \in DOMAIN data
       THEN NewObjects(data.files, FetchRefs(pending))
       ELSE <<>>

\* the click handler of the refresh button: refreshFiles(true) up to its await
refreshClick ==
  /\ Len(fetches) < MaxInflight
  /\ fetches' = Append(fetches, RefreshFetch(TRUE))
  /\ sent' = <<"list">>
  /\ toasts' = <<>>
  /\ ev' = [NoEv EXCEPT !.op = "refresh-click"]
  /\ ret' = NoFile
  /\ UNCHANGED <<variant, registryVars, queueVars, location>>

\* refreshFiles(showToastOnSuccess) from the point its fetch settles
refreshDone(i, status, body) ==
  LET pending == RemoveAt(fetches, i)
      kind == RefreshKind(status, body, pending)
      replaced == kind \in {"replaced", "replaced-render-threw"}
  IN
  /\ i \in 1..Len(fetches)
  /\ fetches[i].op = "refresh"
  /\ fetches' = pending
  /\ files' = RefreshedFiles(kind, body, pending)
  /\ totalSize' = IF replaced
                  THEN (IF "total_size" \in DOMAIN body THEN body.total_size ELSE 0)
                  ELSE totalSize
  /\ capacity' = IF replaced
                 THEN (IF "capacity" \in DOMAIN body THEN body.capacity ELSE 0)
                 ELSE capacity
  /\ preferences' = IF replaced /\ variant = "table"
                    THEN RefreshedPreferences(preferences, body)
                    ELSE preferences
  /\ dom' = IF replaced THEN renderFiles(files').dom ELSE dom
  /\ location' = IF kind = "redirect" THEN "/login" ELSE location
  /\ toasts' = IF kind = "redirect" THEN <<>>
               ELSE IF kind = "replaced"
                    THEN (IF fetches[i].flag THEN <<"success">> ELSE <<>>)
                    ELSE <<"error">>
  /\ sent' = <<>>
  /\ ev' = [NoEv EXCEPT !.op = "refresh-done", !.kind = kind]
  /\ ret' = NoFile
  /\ UNCHANGED <<variant, queueVars>>

-----------------------------------------------------------------------------
(* File actions of the table renderer (app.js) *)

Fetch(op, file, fid, flag) == [op |-> op, file |-> file, fid |-> fid, flag |-> flag]

\* the object JSON parsing creates for the descriptor that replaces or
\* joins the registry
ParsedFile(desc, fs, pending) ==
  LET existingIndex == FindIndex(fs, Get(desc, "id"))
      kept == IF existingIndex # 0 THEN RemoveAt(fs, existingIndex) ELSE fs
  IN Put(desc, "ref", NewRef(Refs(kept) \cup FetchRefs(pending)))

\* a faulty early return: one that wants the raw link whatever the mode
NeedsShareRequestRawAlways(file, needsRawLink) ==
  ~(Truthy(file, "share_url") /\ Truthy(file, "share_raw_url"))

\* whether ensureShareLink(fileId, needsRawLink) has to ask the server
NeedsShareRequest(file, needsRawLink) ==
  ~(Truthy(file, "share_url") /\ (~needsRawLink \/ Truthy(file, "share_raw_url")))

\* the link copyLinkForFile copies once ensureShareLink has returned
ShareLinkOf(file, raw) ==
  IF raw THEN Or(Get(file, "share_raw_url"), Get(file, "share_url"))
  ELSE Get(file, "share_url")

\* the toast of copying text: copyToClipboard shows nothing for a falsy text
LinkToast(text) == IF Or(text, "") = "" THEN <<"error">> ELSE <<"success">>

\* a click on the enabled "copy" button of row i: handleFileAction ->
\* copyLinkForFile -> ensureShareLink up to its await
copyClick(i) ==
  LET fid == Get(dom[i].file, "id")
      idx == FindIndex(files, fid)
      file == files[idx]
      mode == Or(preferences.copyUrlMode, "view")
  IN
  /\ variant = "table"
  /\ i \in 1..Len(dom)
  /\ ev' = [NoEv EXCEPT !.op = "copy-click", !.file = fid,
                        !.kind = IF idx = 0 THEN "missing" ELSE mode]
  /\ IF idx = 0
     THEN /\ toasts' = <<"error">>
          /\ sent' = <<>>
          /\ ret' = NoFile
          /\ UNCHANGED fetches
     ELSE IF mode = "download"
     THEN /\ toasts' = LinkToast(Get(file, "download_url"))
          /\ sent' = <<>>
          /\ ret' = NoFile
          /\ UNCHANGED fetches
     ELSE IF mode = "view"
     THEN /\ toasts' = LinkToast(Get(file, "view_url"))
          /\ sent' = <<>>
          /\ ret' = NoFile
          /\ UNCHANGED fetches
     ELSE IF ~NeedsShareRequest(file, mode = "raw")
     THEN /\ ret' = file
          /\ toasts' = LinkToast(ShareLinkOf(file, mode = "raw"))
          /\ sent' = <<>>
          /\ UNCHANGED fetches
     ELSE /\ Len(fetches) < MaxInflight
          /\ fetches' = Append(fetches, Fetch("share", file, fid, mode = "raw"))
          /\ sent' = <<"share">>
          /\ toasts' = <<>>
          /\ ret' = NoFile
  /\ UNCHANGED <<variant, registryVars, queueVars, location>>

\* the assignments ensureShareLink makes to the record (app.js)
SharedRecord(file, data) ==
  Put(Put(Put(Put(file,
    "share_url", Get(data, "share_url")),
    "share_raw_url", Or(Get(data, "share_raw_url"), Get(data, "share_url"))),
    "share_token", Or(Get(data, "share_token"), Get(file, "share_token"))),
    "is_public", TRUE)

\* the path of a continuation whose 2xx branch ends in insertOrUpdateFile or
\* in a filter of state.files: the call throws when state.files holds
\* undefined
MutationKind(kind, fs) ==
  IF kind = "ok" /\ HasUndefined(fs) THEN "insert-threw" ELSE kind

\* a faulty continuation: one that reads the body without testing response.ok
JsonKindWithoutOkCheck(status, body) ==
  IF FetchKind(status) \in {"network", "redirect"} THEN FetchKind(status)
  ELSE IF ResponseJson(body).threw THEN "parse-error"
  ELSE IF body.t = "null" THEN "type-error"
  ELSE "ok"

\* which path a continuation that reads a JSON body takes
JsonKind(status, body) ==
  IF FetchKind(status) # "ok" THEN FetchKind(status)
  ELSE IF ResponseJson(body).threw THEN "parse-error"
  ELSE IF body.t = "null" THEN "type-error"
  ELSE "ok"

\* ensureShareLink and its caller copyLinkForFile from the point the
\* share-creation fetch settles
shareDone(i, status, body) ==
  LET pending == RemoveAt(fetches, i)
      kind == MutationKind(JsonKind(status, body), files)
      file == SharedRecord(fetches[i].file, body)
      inserted == InsertedFiles(SyncSeq(files, file), file)
  IN
  /\ i \in 1..Len(fetches)
  /\ fetches[i].op = "share"
  /\ ev' = [NoEv EXCEPT !.op = "share-done", !.file = fetches[i].fid, !.kind = kind]
  /\ location' = IF kind = "redirect" THEN "/login" ELSE location
  /\ sent' = <<>>
  /\ IF kind # "ok"
     THEN /\ fetches' = IF kind = "insert-threw" THEN SyncFetches(pending, file)
                        ELSE pending
          /\ dom' = IF kind = "insert-threw" THEN SyncDom(dom, file) ELSE dom
          /\ toasts' = <<"error">>
          /\ ret' = NoFile
          /\ UNCHANGED <<files, totalSize, capacity, preferences>>
     ELSE /\ fetches' = SyncFetches(pending, file)
          /\ files' = inserted
          /\ totalSize' = InsertTotal(SyncSeq(files, file), file)
          /\ dom' = renderFiles(inserted).dom
          /\ ret' = IF renderFiles(inserted).threw THEN NoFile ELSE file
          /\ toasts' = IF renderFiles(inserted).threw THEN <<"error">>
                       ELSE LinkToast(ShareLinkOf(file, fetches[i].flag))
          /\ UNCHANGED <<capacity, preferences>>
  /\ UNCHANGED <<variant, queueVars>>

\* the assignments hideFileFromPublic makes to the record
HiddenRecord(file) ==
  Put(Put(Put(Put(file, "share_url", NULL), "share_raw_url", NULL),
          "share_token", NULL), "is_public", FALSE)

\* a click on the enabled "hide" button of row i, up to the await
hideClick(i) ==
  LET fid == Get(dom[i].file, "id")
      idx == FindIndex(files, fid)
  IN
  /\ variant = "table"
  /\ i \in 1..Len(dom)
  /\ dom[i].canManage /\ dom[i].isPublic
  /\ ev' = [NoEv EXCEPT !.op = "hide-click", !.file = fid,
                        !.kind = IF idx = 0 THEN "missing" ELSE "found"]
  /\ IF idx = 0
     THEN /\ toasts' = <<"error">>
          /\ sent' = <<>>
          /\ UNCHANGED fetches
     ELSE /\ Len(fetches) < MaxInflight
          /\ fetches' = Append(fetches, Fetch("hide", files[idx], fid, FALSE))
          /\ sent' = <<"unshare">>
          /\ toasts' = <<>>
  /\ ret' = NoFile
  /\ UNCHANGED <<variant, registryVars, queueVars, location>>

\* hideFileFromPublic from the point its fetch settles
hideDone(i, status) ==
  LET pending == RemoveAt(fetches, i)
      kind == MutationKind(FetchKind(status), files)
      file == HiddenRecord(fetches[i].file)
      inserted == InsertedFiles(SyncSeq(files, file), file)
  IN
  /\ i \in 1..Len(fetches)
  /\ fetches[i].op = "hide"
  /\ ev' = [NoEv EXCEPT !.op = "hide-done", !.file = fetches[i].fid, !.kind = kind]
  /\ location' = IF kind = "redirect" THEN "/login" ELSE location
  /\ sent' = <<>>
  /\ IF kind # "ok"
     THEN /\ fetches' = IF kind = "insert-threw" THEN SyncFetches(pending, file)
                        ELSE pending
          /\ dom' = IF kind = "insert-threw" THEN SyncDom(dom, file) ELSE dom
          /\ toasts' = IF kind = "redirect" THEN <<>> ELSE <<"error">>
          /\ UNCHANGED <<files, totalSize, capacity, preferences>>
     ELSE /\ fetches' = SyncFetches(pending, file)
          /\ files' = inserted
          /\ totalSize' = InsertTotal(SyncSeq(files, file), file)
          /\ dom' = renderFiles(inserted).dom
          /\ toasts' = IF renderFiles(inserted).threw THEN <<"error">>
                       ELSE <<"success">>
          /\ UNCHANGED <<capacity, preferences>>
  /\ ret' = NoFile
  /\ UNCHANGED <<variant, queueVars>>

\* a click on the enabled "custom" button of row i with a slug entered in the
\* prompt, up to the await
customClick(i) ==
  LET fid == Get(dom[i].file, "id")
      idx == FindIndex(files, fid)
  IN
  /\ variant = "table"
  /\ i \in 1..Len(dom)
  /\ dom[i].canManage
  /\ ev' = [NoEv EXCEPT !.op = "custom-click", !.file = fid,
                        !.kind = IF idx = 0 THEN "missing" ELSE "found"]
  /\ IF idx = 0
     THEN /\ toasts' = <<"error">>
          /\ sent' = <<>>
          /\ UNCHANGED fetches
     ELSE /\ Len(fetches) < MaxInflight
          /\ fetches' = Append(fetches, Fetch("custom", NoFile, fid, FALSE))
          /\ sent' = <<"custom-url">>
          /\ toasts' = <<>>
  /\ ret' = NoFile
  /\ UNCHANGED <<variant, registryVars, queueVars, location>>

\* which path a continuation that inserts data.file takes; body is what
\* response.json() gave, or {} where the code substitutes it.  With no
\* data.file, insertOrUpdateFile(undefined) throws on file.id inside the
\* findIndex callback, which an empty state.files never calls
DescriptorKind(status, data, fs) ==
  IF FetchKind(status) # "ok" THEN FetchKind(status)
  ELSE IF data.t = "null" THEN "type-error"
  ELSE IF HasUndefined(fs) THEN "insert-threw"
  ELSE IF "file" \notin DOMAIN data
       THEN (IF fs = <<>> THEN "undefined-inserted" ELSE "no-descriptor")
  ELSE "ok"

\* promptCustomUrl from the point its fetch settles
customDone(i, status, body) ==
  LET pending == RemoveAt(fetches, i)
      data == IF ResponseJson(body).threw THEN [t |-> "object"] ELSE body
      kind == DescriptorKind(status, data, files)
  IN
  /\ i \in 1..Len(fetches)
  /\ fetches[i].op = "custom"
  /\ ev' = [NoEv EXCEPT !.op = "custom-done", !.file = fetches[i].fid, !.kind = kind]
  /\ location' = IF kind = "redirect" THEN "/login" ELSE location
  /\ sent' = <<>>
  /\ fetches' = pending
  /\ IF kind = "undefined-inserted"
     THEN /\ files' = <<UndefinedEntry>>
          /\ toasts' = <<"error">>
          /\ UNCHANGED <<totalSize, capacity, preferences, dom>>
     ELSE IF kind # "ok"
     THEN /\ toasts' = IF kind = "redirect" THEN <<>> ELSE <<"error">>
          /\ UNCHANGED registryVars
     ELSE /\ files' = InsertedFiles(files, ParsedFile(data.file, files, pending))
          /\ totalSize' = InsertTotal(files, ParsedFile(data.file, files, pending))
          /\ dom' = renderFiles(files').dom
          /\ toasts' = IF renderFiles(files').threw THEN <<"error">>
                       ELSE <<"success">>
          /\ UNCHANGED <<capacity, preferences>>
  /\ ret' = NoFile
  /\ UNCHANGED <<variant, queueVars>>

\* a click on the enabled "delete" button of row i, confirmed, up to the await
deleteClick(i) ==
  LET fid == Get(dom[i].file, "id")
      idx == FindIndex(files, fid)
  IN
  /\ variant = "table"
  /\ i \in 1..Len(dom)
  /\ dom[i].canManage
  /\ ev' = [NoEv EXCEPT !.op = "delete-click", !.file = fid,
                        !.kind = IF idx = 0 THEN "missing" ELSE "found"]
  /\ IF idx = 0
     THEN /\ toasts' = <<"error">>
          /\ sent' = <<>>
          /\ UNCHANGED fetches
     ELSE /\ Len(fetches) < MaxInflight
          /\ fetches' = Append(fetches, Fetch("delete", NoFile, fid, FALSE))
          /\ sent' = <<"delete">>
          /\ toasts' = <<>>
  /\ ret' = NoFile
  /\ UNCHANGED <<variant, registryVars, queueVars, location>>

\* deleteFile from the point its fetch settles
deleteDone(i, status) ==
  LET pending == RemoveAt(fetches, i)
      kind == MutationKind(FetchKind(status), files)
      kept == FilterOutId(files, fetches[i].fid)
  IN
  /\ i \in 1..Len(fetches)
  /\ fetches[i].op = "delete"
  /\ ev' = [NoEv EXCEPT !.op = "delete-done", !.file = fetches[i].fid, !.kind = kind]
  /\ location' = IF kind = "redirect" THEN "/login" ELSE location
  /\ sent' = <<>>
  /\ fetches' = pending
  /\ IF kind # "ok"
     THEN /\ toasts' = IF kind = "redirect" THEN <<>> ELSE <<"error">>
          /\ UNCHANGED registryVars
     ELSE /\ files' = kept
          /\ dom' = renderFiles(kept).dom
          /\ toasts' = IF renderFiles(kept).threw THEN <<"error">>
                       ELSE <<"success">>
          /\ UNCHANGED <<totalSize, capacity, preferences>>
  /\ ret' = NoFile
  /\ UNCHANGED <<variant, queueVars>>

-----------------------------------------------------------------------------
(* File actions of the card renderer (part_000) *)

\* a click on the visible "share" button of card i: ensureShareLink(file, ...)
\* up to its await
cardShareClick(i) ==
  LET file == dom[i].file
  IN
  /\ variant = "card"
  /\ i \in 1..Len(dom)
  /\ dom[i].canManage
  /\ ev' = [NoEv EXCEPT !.op = "card-share-click", !.file = Get(file, "id"),
                        !.kind = IF Truthy(file, "share_url") THEN "have"
                                 ELSE "request"]
  /\ IF Truthy(file, "share_url")
     THEN /\ toasts' = <<"success">>
          /\ sent' = <<>>
          /\ UNCHANGED fetches
     ELSE /\ Len(fetches) < MaxInflight
          /\ fetches' = Append(fetches,
                               Fetch("card-share", file, Get(file, "id"), FALSE))
          /\ sent' = <<"share">>
          /\ toasts' = <<>>
  /\ ret' = NoFile
  /\ UNCHANGED <<variant, registryVars, queueVars, location>>

\* the assignments ensureShareLink makes to the record (part_000)
CardSharedRecord(file, data) ==
  Put(Put(file, "share_url", Get(data, "share_url")),
      "share_raw_url", Or(Get(data, "share_raw_url"), NULL))

\* ensureShareLink (part_000) from the point its fetch settles
cardShareDone(i, status, body) ==
  LET pending == RemoveAt(fetches, i)
      kind == MutationKind(JsonKind(status, body), files)
      file == CardSharedRecord(fetches[i].file, body)
      inserted == InsertedFiles(SyncSeq(files, file), file)
  IN
  /\ i \in 1..Len(fetches)
  /\ fetches[i].op = "card-share"
  /\ ev' = [NoEv EXCEPT !.op = "card-share-done", !.file = fetches[i].fid, !.kind = kind]
  /\ location' = IF kind = "redirect" THEN "/login" ELSE location
  /\ sent' = <<>>
  /\ IF kind # "ok"
     THEN /\ fetches' = IF kind = "insert-threw" THEN SyncFetches(pending, file)
                        ELSE pending
          /\ dom' = IF kind = "insert-threw" THEN SyncDom(dom, file) ELSE dom
          /\ toasts' = IF kind = "redirect" THEN <<>> ELSE <<"error">>
          /\ UNCHANGED <<files, totalSize, capacity, preferences>>
     ELSE /\ fetches' = SyncFetches(pending, file)
          /\ files' = inserted
          /\ totalSize' = InsertTotal(SyncSeq(files, file), file)
          /\ dom' = renderFiles(inserted).dom
          /\ toasts' = IF renderFiles(inserted).threw THEN <<"error">>
                       ELSE IF Truthy(file, "share_url") THEN <<"success">>
                       ELSE <<>>
          /\ UNCHANGED <<capacity, preferences>>
  /\ ret' = NoFile
  /\ UNCHANGED <<variant, queueVars>>

\* a click on the "revoke" button of card i, confirmed, up to the await
revokeClick(i) ==
  LET file == dom[i].file
  IN
  /\ variant = "card"
  /\ i \in 1..Len(dom)
  /\ dom[i].canManage /\ dom[i].shareVisible
  /\ ev' = [NoEv EXCEPT !.op = "revoke-click", !.file = Get(file, "id"),
                        !.kind = IF Truthy(file, "share_url") THEN "request"
                                 ELSE "none"]
  /\ IF ~Truthy(file, "share_url")
     THEN /\ toasts' = <<"info">>
          /\ sent' = <<>>
          /\ UNCHANGED fetches
     ELSE /\ Len(fetches) < MaxInflight
          /\ fetches' = Append(fetches,
                               Fetch("revoke", file, Get(file, "id"), FALSE))
          /\ sent' = <<"unshare">>
          /\ toasts' = <<>>
  /\ ret' = NoFile
  /\ UNCHANGED <<variant, registryVars, queueVars, location>>

\* the revoke handler from the point its fetch settles
revokeDone(i, status) ==
  LET pending == RemoveAt(fetches, i)
      kind == MutationKind(FetchKind(status), files)
      file == Put(fetches[i].file, "share_url", NULL)
      inserted == InsertedFiles(SyncSeq(files, file), file)
  IN
  /\ i \in 1..Len(fetches)
  /\ fetches[i].op = "revoke"
  /\ ev' = [NoEv EXCEPT !.op = "revoke-done", !.file = fetches[i].fid, !.kind = kind]
  /\ location' = IF kind = "redirect" THEN "/login" ELSE location
  /\ sent' = <<>>
  /\ IF kind # "ok"
     THEN /\ fetches' = IF kind = "insert-threw" THEN SyncFetches(pending, file)
                        ELSE pending
          /\ dom' = IF kind = "insert-threw"
                    THEN [k \in 1..Len(dom) |->
                            IF dom[k].file.ref = file.ref
                            THEN [dom[k] EXCEPT !.file = file, !.shareVisible = FALSE]
                            ELSE dom[k]]
                    ELSE dom
          /\ toasts' = IF kind = "redirect" THEN <<>> ELSE <<"error">>
          /\ UNCHANGED <<files, totalSize, capacity, preferences>>
     ELSE /\ fetches' = SyncFetches(pending, file)
          /\ files' = inserted
          /\ totalSize' = InsertTotal(SyncSeq(files, file), file)
          /\ dom' = renderFiles(inserted).dom
          /\ toasts' = IF renderFiles(inserted).threw THEN <<"error">>
                       ELSE <<"success">>
          /\ UNCHANGED <<capacity, preferences>>
  /\ ret' = NoFile
  /\ UNCHANGED <<variant, queueVars>>

\* a click on the "rename" button of card i with a new, different name
\* entered in the prompt, up to the await
renameClick(i) ==
  LET file == dom[i].file
  IN
  /\ variant = "card"
  /\ i \in 1..Len(dom)
  /\ dom[i].canManage
  /\ Len(fetches) < MaxInflight
  /\ fetches' = Append(fetches, Fetch("rename", file, Get(file, "id"), FALSE))
  /\ sent' = <<"rename">>
  /\ toasts' = <<>>
  /\ ev' = [NoEv EXCEPT !.op = "rename-click", !.file = Get(file, "id")]
  /\ ret' = NoFile
  /\ UNCHANGED <<variant, registryVars, queueVars, location>>

\* the rename handler from the point its fetch settles
renameDone(i, status, body) ==
  LET pending == RemoveAt(fetches, i)
      kind == IF JsonKind(status, body) # "ok" THEN JsonKind(status, body)
              ELSE DescriptorKind(status, body, files)
  IN
  /\ i \in 1..Len(fetches)
  /\ fetches[i].op = "rename"
  /\ ev' = [NoEv EXCEPT !.op = "rename-done", !.file = fetches[i].fid, !.kind = kind]
  /\ location' = IF kind = "redirect" THEN "/login" ELSE location
  /\ sent' = <<>>
  /\ fetches' = pending
  /\ IF kind = "undefined-inserted"
     THEN /\ files' = <<UndefinedEntry>>
          /\ toasts' = <<"error">>
          /\ UNCHANGED <<totalSize, capacity, preferences, dom>>
     ELSE IF kind # "ok"
     THEN /\ toasts' = IF kind = "redirect" THEN <<>> ELSE <<"error">>
          /\ UNCHANGED registryVars
     ELSE /\ files' = InsertedFiles(files, ParsedFile(body.file, files, pending))
          /\ totalSize' = InsertTotal(files, ParsedFile(body.file, files, pending))
          /\ dom' = renderFiles(files').dom
          /\ toasts' = IF renderFiles(files').threw THEN <<"error">>
                       ELSE <<"success">>
          /\ UNCHANGED <<capacity, preferences>>
  /\ ret' = NoFile
  /\ UNCHANGED <<variant, queueVars>>

\* a click on the "delete" button of card i, confirmed, up to the await
cardDeleteClick(i) ==
  LET file == dom[i].file
  IN
  /\ variant = "card"
  /\ i \in 1..Len(dom)
  /\ dom[i].canManage
  /\ Len(fetches) < MaxInflight
  /\ fetches' = Append(fetches, Fetch("card-delete", file, Get(file, "id"), FALSE))
  /\ sent' = <<"delete">>
  /\ toasts' = <<>>
  /\ ev' = [NoEv EXCEPT !.op = "delete-click", !.file = Get(file, "id"),
                        !.kind = "found"]
  /\ ret' = NoFile
  /\ UNCHANGED <<variant, registryVars, queueVars, location>>

\* the delete handler of a card from the point its fetch settles, up to the
\* await inside the refreshFiles() it calls
cardDeleteDone(i, status) ==
  LET pending == RemoveAt(fetches, i)
      kind == MutationKind(FetchKind(status), files)
  IN
  /\ i \in 1..Len(fetches)
  /\ fetches[i].op = "card-delete"
  /\ ev' = [NoEv EXCEPT !.op = "delete-done", !.file = fetches[i].fid, !.kind = kind]
  /\ location' = IF kind = "redirect" THEN "/login" ELSE location
  /\ IF kind # "ok"
     THEN /\ fetches' = pending
          /\ toasts' = IF kind = "redirect" THEN <<>> ELSE <<"error">>
          /\ sent' = <<>>
          /\ UNCHANGED registryVars
     ELSE /\ files' = FilterOutId(files, fetches[i].fid)
          /\ fetches' = Append(pending, RefreshFetch(FALSE))
          /\ sent' = <<"list">>
          /\ toasts' = <<"success">>
          /\ UNCHANGED <<totalSize, capacity, preferences, dom>>
  /\ ret' = NoFile
  /\ UNCHANGED <<variant, queueVars>>

-----------------------------------------------------------------------------
(* The environment: files the user picks, and what the server answers *)

\* the size the server stores for a file
SizeOnServer(id) == IF id = "f1" THEN 10 ELSE 20

PlainFile(id) ==
  [id |-> id, name |-> "a.txt", size |-> SizeOnServer(id), content_type |-> "text/plain",
   can_manage |-> TRUE, is_public |-> FALSE, view_url |-> "/v", download_url |-> "/d"]

SharedFile(id) ==
  [id |-> id, name |-> "a.txt", size |-> SizeOnServer(id), content_type |-> "text/plain",
   can_manage |-> TRUE, is_public |-> TRUE, view_url |-> "/v", download_url |-> "/d",
   share_url |-> "/s/t1", share_raw_url |-> "/s/t1/raw", share_token |-> "t1"]

\* a shared file whose descriptor carries no raw link
HalfSharedFile(id) ==
  [id |-> id, name |-> "a.txt", size |-> SizeOnServer(id), content_type |-> "text/plain",
   can_manage |-> TRUE, is_public |-> TRUE, share_url |-> "/s/t1"]

\* a descriptor whose content_type is a JSON number
BrokenFile(id) == [id |-> id, size |-> 10, content_type |-> NUM]

\* the candidates of a file picker or a drop
PickedFiles ==
  {[name |-> "a.bin", size |-> MAX_FILE_SIZE],
   [name |-> "a.bin", size |-> MAX_FILE_SIZE + 1]}

Batches == {<<f>> : f \in PickedFiles} \cup {<<f, g>> : f, g \in PickedFiles}

\* event.total of the progress events of one upload
Totals == {2}

Statuses == {0, 200, 401, 500}

UploadDescriptors == {PlainFile("f1"), BrokenFile("f1")}

\* bodies of the upload endpoint
UploadBodies ==
  {[t |-> "text"], [t |-> "empty"], [t |-> "null"],
   [t |-> "object", files |-> <<>>],
   [t |-> "object", message |-> "Kein Speicherplatz."]}
  \cup {[t |-> "object", files |-> <<d>>] : d \in UploadDescriptors}

Listing(fs, withPrefs) ==
  IF withPrefs
  THEN [t |-> "object", files |-> fs, total_size |-> SumSizes(fs), capacity |-> 200,
        preferences |-> [hide_media_default |-> TRUE, copy_url_mode |-> "raw"]]
  ELSE [t |-> "object", files |-> fs, total_size |-> SumSizes(fs), capacity |-> 200]

\* the listings the server of the queue specification answers with
QueueListings == {Listing(<<>>, FALSE)}

\* the page right after initialise() has issued its listing request; with
\* initialFiles = <<>> this is the freshly constructed state, otherwise the
\* state of a page whose earlier listing has been displayed and whose refresh
\* button has just been pressed
InitState(v, initialFiles, mode) ==
  /\ variant = v
  /\ files = NewObjects(initialFiles, {})
  /\ totalSize = SumSizes(initialFiles)
  /\ capacity = 100
  /\ preferences = [hideMediaDefault |-> FALSE, copyUrlMode |-> mode]
  /\ dom = renderFiles(NewObjects(initialFiles, {})).dom
  /\ queue = <<>>
  /\ xhr = {}
  /\ timers = {}
  /\ fetches = <<RefreshFetch(FALSE)>>
  /\ location = "/"
  /\ toasts = <<>>
  /\ sent = <<"list">>
  /\ ret = NoFile
  /\ ev = NoEv

-----------------------------------------------------------------------------
(* The upload queue with the registry it feeds *)

\* handlers run while the page is alive: assigning window.location.href
\* unloads it
PageAlive == location = "/"

Untracked == UNCHANGED <<server, answers>>

InitQueue ==
  /\ InitState("table", <<>>, "view")
  /\ server = <<>> /\ answers = <<>>

AddFiles ==
  /\ PageAlive
  /\ Untracked
  /\ \E batch \in Batches : addFilesToQueue(batch)

RemoveClick ==
  /\ PageAlive
  /\ Untracked
  /\ \E i \in 1..MaxQueue : removeQueueItem(i)

StartUpload ==
  /\ PageAlive
  /\ Untracked
  /\ \E total \in Totals : startUpload(total)

Progress ==
  /\ PageAlive
  /\ Untracked
  /\ \E id \in 1..MaxQueue, total \in Totals, lc \in BOOLEAN :
       \E loaded \in 0..total : uploadProgress(id, loaded, lc)

Load ==
  /\ PageAlive
  /\ Untracked
  /\ \E id \in 1..MaxQueue, status \in Statuses \ {0}, body \in UploadBodies :
       uploadLoad(id, status, body)

XhrError ==
  /\ PageAlive
  /\ Untracked
  /\ \E id \in 1..MaxQueue : uploadError(id)

Timer ==
  /\ PageAlive
  /\ Untracked
  /\ \E id \in 1..MaxQueue : queueRemovalTimer(id)

QueueRefreshDone ==
  /\ PageAlive
  /\ Untracked
  /\ \E i \in 1..MaxInflight, status \in {200, 500}, body \in QueueListings :
       refreshDone(i, status, body)

NextQueue ==
  \/ AddFiles
  \/ RemoveClick
  \/ StartUpload
  \/ Progress
  \/ Load
  \/ XhrError
  \/ Timer
  \/ QueueRefreshDone

SpecQueue == InitQueue /\ [][NextQueue]_vars

-----------------------------------------------------------------------------
(* Properties of the upload queue *)

StatusSteps ==
  {<<"pending", "uploading">>, <<"uploading", "success">>,
   <<"uploading", "error">>}

\* the values item id's status takes in a step, in order: its value before,
\* then what the handler assigns; the item of a load or error event is the
\* one whose request ends in the step
StatusPath(id) ==
  IF id \in XhrIds /\ id \notin {x.id : x \in xhr'}
  THEN <<ItemOf(queue, id).status>> \o ev'.marks
  ELSE <<ItemOf(queue, id).status, ItemOf(queue', id).status>>

\* C1: the status of a queue item changes only by pending -> uploading,
\* uploading -> success and uploading -> error; in particular the load
\* handler never turns an item it has just marked success into error
C1_StatusStepsOnly ==
  [][\A id \in 1..MaxQueue :
       HasItem(queue, id) /\ HasItem(queue', id) =>
         \A k \in 1..(Len(StatusPath(id)) - 1) :
           \/ StatusPath(id)[k] = StatusPath(id)[k + 1]
           \/ <<StatusPath(id)[k], StatusPath(id)[k + 1]>> \in StatusSteps]_vars

\* C2: a remove click takes the item out of the queue iff its status is
\* pending; otherwise the queue is unchanged and an info toast is shown
C2_RemoveIffPending ==
  [][\A i \in 1..MaxQueue :
       removeQueueItem(i) =>
         IF queue[i].status = "pending"
         THEN /\ queue' = RemoveAt(queue, i)
              /\ toasts' = <<>>
         ELSE /\ queue' = queue
              /\ toasts' = <<"info">>]_vars

\* a remove click on an item that is uploading, success or error was rejected
C2_Witness ==
  /\ ev.op = "remove"
  /\ ev.kind \in {"uploading", "success", "error"}
  /\ toasts = <<"info">>
  /\ \E i \in 1..Len(queue) : queue[i].status = ev.kind

\* the candidates of a batch of at most 500 MiB, in order
WithinLimit(batch) == SelectSeq(batch, LAMBDA f : f.size <= 524288000)

\* C3: add appends one pending item with progress 0 per candidate of at
\* most 524288000 bytes, in order and whatever names are queued already;
\* each larger candidate gets an error toast and no item; no request is sent
C3_AddWithinLimit ==
  [][\A batch \in Batches :
       addFilesToQueue(batch) =>
         /\ Len(queue') = Len(queue) + Len(WithinLimit(batch))
         /\ SubSeq(queue', 1, Len(queue)) = queue
         /\ \A k \in 1..Len(WithinLimit(batch)) :
              /\ queue'[Len(queue) + k].file = WithinLimit(batch)[k]
              /\ queue'[Len(queue) + k].status = "pending"
              /\ queue'[Len(queue) + k].progress = 0
              /\ \A j \in 1..Len(queue') :
                   queue'[j].id = queue'[Len(queue) + k].id => j = Len(queue) + k
         /\ Len(SelectSeq(toasts', LAMBDA t : t = "error"))
              = Len(batch) - Len(WithinLimit(batch))
         /\ sent' = <<>> /\ xhr' = xhr /\ fetches' = fetches]_vars

\* one add took a candidate of exactly 500 MiB, skipped a larger one, and the
\* queue now holds two items of the same name
C3_Witness ==
  /\ ev.op = "add"
  /\ toasts = <<"error", "success">>
  /\ Len(queue) = 2
  /\ queue[1].file.name = queue[2].file.name
  /\ queue[2].file.size = MAX_FILE_SIZE
  /\ queue[2].status = "pending" /\ queue[2].progress = 0

\* C7: an upload that completes with 401 navigates to /login and leaves the
\* item's status, progress and message, the registry and the toasts alone
C7_Upload401 ==
  [][\A id \in 1..MaxQueue, body \in UploadBodies :
       uploadLoad(id, 401, body) =>
         /\ location' = "/login"
         /\ queue' = queue
         /\ ItemOf(queue', id).status = "uploading"
         /\ UNCHANGED registryVars
         /\ toasts' = <<>>]_vars

\* an upload was answered with 401 and its item is still uploading
C7_Witness ==
  /\ ev.op = "load" /\ ev.kind = "redirect"
  /\ location = "/login"
  /\ \E i \in 1..Len(queue) : queue[i].status = "uploading" /\ queue[i].progress > 0

\* the positions of the queue items that are pending
PendingAt(q) == {i \in 1..Len(q) : q[i].status = "pending"}

\* C11: a start-upload click sends exactly one upload request per pending
\* item and moves each of them to uploading in the same step; items in any
\* other status are neither sent nor changed; with no pending item it sends
\* nothing, changes no state and shows an info toast
C11_StartSendsPending ==
  [][\A total \in Totals :
       startUpload(total) =>
         IF PendingAt(queue) = {}
         THEN /\ sent' = <<>> /\ xhr' = xhr /\ queue' = queue
              /\ UNCHANGED <<registryVars, timers, fetches, location>>
              /\ toasts' = <<"info">>
         ELSE /\ Len(sent') = Cardinality(PendingAt(queue))
              /\ \A k \in 1..Len(sent') : sent'[k] = "upload"
              /\ xhr \subseteq xhr'
              /\ Cardinality(xhr' \ xhr) = Cardinality(PendingAt(queue))
              /\ {x.id : x \in xhr' \ xhr} = {queue[i].id : i \in PendingAt(queue)}
              /\ Len(queue') = Len(queue)
              /\ \A i \in 1..Len(queue) :
                   IF i \in PendingAt(queue)
                   THEN /\ queue'[i].status = "uploading"
                        /\ queue'[i].id = queue[i].id
                        /\ queue'[i].file = queue[i].file
                   ELSE queue'[i] = queue[i]]_vars

\* a start-upload click sent the one pending item and left a failed item alone
C11_Witness ==
  /\ ev.op = "start"
  /\ sent = <<"upload">>
  /\ Len(queue) = 2
  /\ queue[1].status = "error"
  /\ queue[2].status = "uploading" /\ queue[2].progress = 0
  /\ Cardinality(xhr) = 1

\* how many records of fs carry id
CountId(fs, id) == Cardinality({i \in 1..Len(fs) : Get(fs[i], "id") = id})

\* C12: an upload that completes with 2xx and a descriptor d whose id is not
\* in the registry leaves its item success with progress 100, exactly one
\* record with d.id in the registry, totalSize larger by d.size, and the
\* status of every other item as it was
C12_UploadMerged ==
  [][\A id \in 1..MaxQueue, d \in UploadDescriptors :
       (/\ uploadLoad(id, 200, [t |-> "object", files |-> <<d>>])
        /\ d.id \notin Ids(files)) =>
         /\ ItemOf(queue', id).status = "success"
         /\ ItemOf(queue', id).progress = 100
         /\ CountId(files', d.id) = 1
         /\ totalSize' = totalSize + d.size
         /\ \A other \in 1..MaxQueue :
              other # id /\ HasItem(queue, other) =>
                /\ HasItem(queue', other)
                /\ ItemOf(queue', other).status = ItemOf(queue, other).status]_vars

\* the upload bodies that parse as JSON and carry no file descriptor: an
\* object without files or with an empty files array, and null
ParsableWithoutDescriptor ==
  {b \in UploadBodies :
     \/ b.t = "null"
     \/ b.t = "object" /\ ("files" \notin DOMAIN b \/ b.files = <<>>)}

\* C13: an upload that completes with 2xx and a parsable body without a file
\* descriptor leaves its item success with progress 100, makes no local
\* change to the registry, sends exactly one listing request and schedules
\* the removal of the item
C13_UploadWithoutDescriptor ==
  [][\A id \in 1..MaxQueue, body \in ParsableWithoutDescriptor :
       uploadLoad(id, 200, body) =>
         /\ ItemOf(queue', id).status = "success"
         /\ ItemOf(queue', id).progress = 100
         /\ UNCHANGED registryVars
         /\ sent' = <<"list">>
         /\ fetches' = Append(fetches, RefreshFetch(FALSE))
         /\ id \in timers']_vars

\* the items whose upload request is sent in the step
Started == {x.id : x \in xhr'} \ XhrIds

\* C16: an upload request is sent only by a start-upload click and only for
\* an item that is pending; one request is sent for each such item; no item
\* ever returns to pending, so no item is sent twice; adding files sends
\* nothing
C16_OneRequestPerItem ==
  [][/\ \A id \in Started :
          /\ \E total \in Totals : startUpload(total)
          /\ HasItem(queue, id) /\ ItemOf(queue, id).status = "pending"
     /\ Len(SelectSeq(sent', LAMBDA t : t = "upload")) = Cardinality(Started)
     /\ \A id \in 1..MaxQueue :
          (HasItem(queue, id) /\ HasItem(queue', id)
             /\ ItemOf(queue', id).status = "pending")
            => ItemOf(queue, id).status = "pending"
     /\ \A batch \in Batches :
          addFilesToQueue(batch) => sent' = <<>> /\ xhr' = xhr]_vars

\* a start-upload click found one item uploading and one failed, and sent
\* nothing
C16_Witness ==
  /\ ev.op = "start"
  /\ sent = <<>>
  /\ toasts = <<"info">>
  /\ Len(queue) = 2
  /\ queue[1].status = "uploading"
  /\ queue[2].status = "error"
  /\ Cardinality(xhr) = 1

\* item id is in the queue with status error
ErrorAt(q, id) == HasItem(q, id) /\ ItemOf(q, id).status = "error"

\* C17: an item whose status is error stays in the queue with its file and
\* with status error: no timer, no start-upload
\* click, no remove click and no other item's completion takes it out or
\* restarts it, and no request is sent for it
C17_ErrorStays ==
  [][\A id \in 1..MaxQueue :
       ErrorAt(queue, id) =>
         /\ ErrorAt(queue', id)
         /\ ItemOf(queue', id).file = ItemOf(queue, id).file
         /\ id \notin {x.id : x \in xhr'}]_vars

\* the timer of the second item, which had succeeded, took it out and left
\* the first item, which had failed with the server's message
C17_Witness ==
  /\ ev.op = "timer"
  /\ Len(queue) = 1
  /\ queue[1].id = 1
  /\ queue[1].status = "error"
  /\ queue[1].message = "Kein Speicherplatz."
  /\ timers = {}

\* the positions of the queue q whose item carries id
ItemsOf(q, id) == {k \in 1..Len(q) : q[k].id = id}

\* C25: the progress of every queue item is within [0,100], it is 0 while
\* the item is pending and 100 while it is success, and while an item is
\* uploading no step lowers its progress (the transport reports loaded
\* non-decreasing and at most total)
C25_ProgressRange ==
  /\ [](\A k \in 1..Len(queue) :
          /\ queue[k].progress >= 0
          /\ queue[k].progress <= 100
          /\ (queue[k].status = "pending" => queue[k].progress = 0)
          /\ (queue[k].status = "success" => queue[k].progress = 100))
  /\ [][\A id \in 1..MaxQueue :
          \A j \in ItemsOf(queue, id), k \in ItemsOf(queue', id) :
            (queue[j].status = "uploading" /\ queue'[k].status = "uploading")
              => queue'[k].progress >= queue[j].progress]_vars

\* a progress event has moved an uploading item to the middle of its way
C25_Witness ==
  /\ ev.op = "progress"
  /\ \E k \in 1..Len(queue) :
       queue[k].status = "uploading" /\ queue[k].progress = 50

-----------------------------------------------------------------------------
(* The upload queue when timers fire and the transport answers *)

\* the timeout that scheduleQueueRemoval has set for item id elapses
TimerFires(id) == PageAlive /\ Untracked /\ queueRemovalTimer(id)

\* the transport delivers the load or the error event of item id's request
Delivered(id) ==
  /\ PageAlive
  /\ Untracked
  /\ \/ \E status \in Statuses \ {0}, body \in UploadBodies :
          uploadLoad(id, status, body)
     \/ uploadError(id)

\* the user of this specification picks one file at a time
LiveAddFiles ==
  /\ PageAlive
  /\ Untracked
  /\ \E f \in PickedFiles : addFilesToQueue(<<f>>)

\* the progress events of this specification report the bytes sent so far
\* with lengthComputable set
LiveProgress ==
  /\ PageAlive
  /\ Untracked
  /\ \E id \in 1..MaxQueue, total \in Totals :
       \E loaded \in 1..total : uploadProgress(id, loaded, TRUE)

NextQueueLive ==
  \/ LiveAddFiles
  \/ RemoveClick
  \/ StartUpload
  \/ LiveProgress
  \/ Load
  \/ XhrError
  \/ Timer
  \/ QueueRefreshDone

SpecQueueLive ==
  /\ InitQueue
  /\ [][NextQueueLive]_vars
  /\ \A id \in 1..MaxQueue : WF_vars(TimerFires(id)) /\ WF_vars(Delivered(id))

\* item id is in the queue with status success
SuccessAt(q, id) == HasItem(q, id) /\ ItemOf(q, id).status = "success"

\* C14: while the page is displayed and timers fire, an item with status
\* success is eventually taken out of the queue; it is taken out only by its
\* own timer, in a later step than the load that set success; and a timer
\* takes out its own item only, and only if the item is still success
C14_SuccessRemovedByTimer ==
  /\ \A id \in 1..MaxQueue :
       SuccessAt(queue, id) ~> (~HasItem(queue, id) \/ ~PageAlive)
  /\ [][\A id \in 1..MaxQueue :
          /\ (HasItem(queue, id) /\ ItemOf(queue, id).status = "uploading")
               => HasItem(queue', id)
          /\ (SuccessAt(queue, id) /\ ~HasItem(queue', id))
               => queueRemovalTimer(id)
          /\ queueRemovalTimer(id) =>
               queue' = IF SuccessAt(queue, id)
                        THEN SelectSeq(queue, LAMBDA it : it.id # id)
                        ELSE queue]_vars

\* a timer took the first item, which had succeeded, out of the queue and
\* left the second item, which is still uploading
C14_Witness ==
  /\ ev.op = "timer"
  /\ Len(queue) = 1
  /\ queue[1].id = 2
  /\ queue[1].status = "uploading"
  /\ timers = {}

\* item id is in the queue with status uploading
UploadingAt(q, id) == HasItem(q, id) /\ ItemOf(q, id).status = "uploading"

\* item id is in the queue with status success or error
EndedAt(q, id) ==
  HasItem(q, id) /\ ItemOf(q, id).status \in {"success", "error"}

\* C15 as stated: an item that is uploading eventually has status success
\* or error, unless the page is left while its request is still unanswered
C15_AttemptEnds ==
  \A id \in 1..MaxQueue :
    UploadingAt(queue, id) ~>
      (EndedAt(queue, id) \/ (~PageAlive /\ id \in XhrIds))

\* C15: an item that is uploading eventually has status success or error,
\* or the page navigates to /login; the load or error event of its request
\* leaves it success or error unless the answer is a 401, which navigates
\* to /login and leaves the item uploading
C15_AttemptEndsOrLogin ==
  /\ \A id \in 1..MaxQueue :
       UploadingAt(queue, id) ~> (EndedAt(queue, id) \/ ~PageAlive)
  /\ [][\A id \in 1..MaxQueue :
          Delivered(id) =>
            IF location' = "/login"
            THEN ev'.kind = "redirect" /\ UploadingAt(queue', id)
            ELSE EndedAt(queue', id)]_vars

\* both attempts have ended: the first item succeeded and the request of
\* the second one failed in transport
C15_Witness ==
  /\ ev.op = "xhr-error"
  /\ Len(queue) = 2
  /\ queue[1].status = "success"
  /\ queue[2].status = "error"
  /\ xhr = {}

-----------------------------------------------------------------------------
(* The file registry under the user's file actions *)

FileIds == {"f1", "f2"}

Modes == {"view", "download", "share", "raw"}

InitialListings == {<<PlainFile("f1"), HalfSharedFile("f2")>>}

\* the listing of a server that holds both files
FullListing == Listing(<<SharedFile("f2"), PlainFile("f1")>>, TRUE)

\* the listing of a server that holds no file, for a user who has chosen no
\* link flavour
UnsetModeListing ==
  [t |-> "object", files |-> <<>>, total_size |-> 0, capacity |-> 200,
   preferences |-> [hide_media_default |-> TRUE, copy_url_mode |-> NULL]]

RegistryListings ==
  {Listing(<<>>, FALSE), FullListing, UnsetModeListing}

\* bodies of the share-creation endpoint
ShareBodies ==
  {[t |-> "object", share_url |-> "/s/t1", share_raw_url |-> "/s/t1/raw",
    share_token |-> "t1"],
   [t |-> "object", share_url |-> "/s/t1"],
   [t |-> "object"],
   [t |-> "text"]}

\* the descriptor the custom-url and rename endpoints return for file id
UpdatedFile(id) ==
  [id |-> id, name |-> "c.txt", is_public |-> TRUE,
   share_url |-> "/s/my-link", share_token |-> "my-link"]

\* bodies of the custom-url and rename endpoints for file id
DescriptorBodies(id) ==
  {[t |-> "object", file |-> UpdatedFile(id), message |-> "Gespeichert."],
   [t |-> "object"],
   [t |-> "text"]}

\* the user of this specification waits for the requests in flight to settle
\* before the next click
Idle == fetches = <<>>

InitRegistry ==
  /\ \E v \in {"table", "card"}, l \in InitialListings, mode \in Modes :
       InitState(v, l, IF v = "table" THEN mode ELSE "view")
  /\ server = <<>> /\ answers = <<>>

RefreshClick ==
  /\ PageAlive
  /\ Untracked
  /\ Idle /\ refreshClick

RefreshDone ==
  /\ PageAlive
  /\ Untracked
  /\ \E i \in 1..Len(fetches), status \in Statuses,
       body \in RegistryListings \cup {[t |-> "text"]} :
       refreshDone(i, status, body)

CopyClick ==
  /\ PageAlive
  /\ Untracked
  /\ Idle /\ \E i \in 1..Len(dom) : copyClick(i)

ShareDone ==
  /\ PageAlive
  /\ Untracked
  /\ \E i \in 1..Len(fetches), status \in Statuses, body \in ShareBodies :
       shareDone(i, status, body)

HideClick ==
  /\ PageAlive
  /\ Untracked
  /\ Idle /\ \E i \in 1..Len(dom) : hideClick(i)

HideDone ==
  /\ PageAlive
  /\ Untracked
  /\ \E i \in 1..Len(fetches), status \in Statuses : hideDone(i, status)

CustomClick ==
  /\ PageAlive
  /\ Untracked
  /\ Idle /\ \E i \in 1..Len(dom) : customClick(i)

CustomDone ==
  /\ PageAlive
  /\ Untracked
  /\ \E i \in 1..Len(fetches), status \in Statuses :
       \E body \in DescriptorBodies(fetches[i].fid) : customDone(i, status, body)

DeleteClick ==
  /\ PageAlive
  /\ Untracked
  /\ Idle /\ \E i \in 1..Len(dom) : deleteClick(i)

DeleteDone ==
  /\ PageAlive
  /\ Untracked
  /\ \E i \in 1..Len(fetches), status \in Statuses : deleteDone(i, status)

CardShareClick ==
  /\ PageAlive
  /\ Untracked
  /\ Idle /\ \E i \in 1..Len(dom) : cardShareClick(i)

CardShareDone ==
  /\ PageAlive
  /\ Untracked
  /\ \E i \in 1..Len(fetches), status \in Statuses, body \in ShareBodies :
       cardShareDone(i, status, body)

RevokeClick ==
  /\ PageAlive
  /\ Untracked
  /\ Idle /\ \E i \in 1..Len(dom) : revokeClick(i)

RevokeDone ==
  /\ PageAlive
  /\ Untracked
  /\ \E i \in 1..Len(fetches), status \in Statuses : revokeDone(i, status)

RenameClick ==
  /\ PageAlive
  /\ Untracked
  /\ Idle /\ \E i \in 1..Len(dom) : renameClick(i)

RenameDone ==
  /\ PageAlive
  /\ Untracked
  /\ \E i \in 1..Len(fetches), status \in Statuses :
       \E body \in DescriptorBodies(fetches[i].fid) : renameDone(i, status, body)

CardDeleteClick ==
  /\ PageAlive
  /\ Untracked
  /\ Idle /\ \E i \in 1..Len(dom) : cardDeleteClick(i)

CardDeleteDone ==
  /\ PageAlive
  /\ Untracked
  /\ \E i \in 1..Len(fetches), status \in Statuses : cardDeleteDone(i, status)

NextRegistry ==
  \/ RefreshClick
  \/ RefreshDone
  \/ CopyClick
  \/ ShareDone
  \/ HideClick
  \/ HideDone
  \/ CustomClick
  \/ CustomDone
  \/ DeleteClick
  \/ DeleteDone
  \/ CardShareClick
  \/ CardShareDone
  \/ RevokeClick
  \/ RevokeDone
  \/ RenameClick
  \/ RenameDone
  \/ CardDeleteClick
  \/ CardDeleteDone

SpecRegistry == InitRegistry /\ [][NextRegistry]_vars

-----------------------------------------------------------------------------
(* Properties of the file registry *)

RECURSIVE ExactSum(_, _)
\* the sum of size over the first n records of fs, a missing size counting 0
ExactSum(fs, n) ==
  IF n = 0 THEN 0
  ELSE ExactSum(fs, n - 1) + (IF "size" \in DOMAIN fs[n] THEN fs[n].size ELSE 0)

\* the handlers that end by calling insertOrUpdateFile, on the path that
\* reaches the call
InsertCompleted(e) ==
  \/ e.op = "load" /\ e.kind \in {"merged", "merged-render-threw"}
  \/ /\ e.op \in {"share-done", "hide-done", "custom-done", "card-share-done",
                  "revoke-done", "rename-done"}
     /\ e.kind = "ok"

\* C4: right after every insert-or-update, totalSize is the exact sum of size
\* over the records of state.files, whatever it was before
C4_TotalAfterInsert ==
  [][InsertCompleted(ev') => totalSize' = ExactSum(files', Len(files'))]_vars

\* a descriptor without a size has replaced the one record of a registry
\* whose total still counted a deleted record
C4_Witness ==
  /\ ev.op \in {"custom-done", "rename-done"} /\ ev.kind = "ok"
  /\ Len(files) = 1
  /\ "size" \notin DOMAIN files[1]
  /\ totalSize = 0

\* C5: in every state reached after a registry mutation completes (insert or
\* update, local removal on a successful delete, replacement on refresh),
\* totalSize is the sum of size over the records of state.files
C5_TotalAfterMutation ==
  (\/ InsertCompleted(ev)
   \/ ev.op = "delete-done" /\ ev.kind = "ok"
   \/ ev.op = "refresh-done" /\ ev.kind = "replaced")
    => totalSize = ExactSum(files, Len(files))

\* C6: ensureShareLink(fileId, needsRawLink) on a record that has a share_url,
\* and a share_raw_url when needsRawLink, sends nothing, leaves the registry
\* alone and returns that record; the record still has its links afterwards,
\* so the next call returns the same
C6_ExistingLink ==
  [][\A i \in 1..Len(dom) :
       LET idx == FindIndex(files, Get(dom[i].file, "id"))
           mode == preferences.copyUrlMode
       IN (/\ copyClick(i)
           /\ idx # 0
           /\ mode \in {"share", "raw"}
           /\ Truthy(files[idx], "share_url")
           /\ mode = "raw" => Truthy(files[idx], "share_raw_url"))
          => /\ sent' = <<>>
             /\ fetches' = fetches
             /\ UNCHANGED registryVars
             /\ ret' = files[idx]
             /\ ret' = files'[idx]]_vars

\* a copy click in mode "share" returned a record that has a share_url and
\* no share_raw_url, without a request
C6_Witness ==
  /\ ev.op = "copy-click" /\ ev.kind = "share"
  /\ sent = <<>>
  /\ ret # NoFile
  /\ \E k \in 1..Len(files) : files[k] = ret
  /\ Truthy(ret, "share_url") /\ ~Truthy(ret, "share_raw_url")

\* C8: when a DELETE request returns 2xx, the record is removed in that step
\* and a full refresh is requested, in the table and in the card renderer
C8_DeleteThenRefresh ==
  (ev.op = "delete-done" /\ ev.kind = "ok")
    => ev.file \notin Ids(files) /\ sent = <<"list">>

\* C9: a custom-URL assignment on file f that succeeds with descriptor d
\* replaces the record of f by d where it stands: every field is d's, the
\* number of records and all other records are unchanged
C9_CustomReplaces ==
  [][\A i \in 1..Len(fetches), fid \in FileIds :
       \A body \in DescriptorBodies(fid) :
         (/\ customDone(i, 200, body)
          /\ fetches[i].fid = fid
          /\ "file" \in DOMAIN body)
         => /\ Len(files') = Len(files)
            /\ \E k \in 1..Len(files) :
                 /\ Get(files[k], "id") = fid
                 /\ Strip(files'[k]) = body.file
                 /\ \A j \in 1..Len(files) : j # k => files'[j] = files[j]]_vars

\* a refresh fails for a reason other than 401: the status is not 2xx, the
\* transport fails (status 0), or the body does not parse
RefreshFails(status, body) ==
  /\ status # 401
  /\ \/ status < 200 \/ status > 299
     \/ body.t \in {"text", "empty"}

\* C10: a refresh that fails for a reason other than 401 leaves files,
\* totalSize, capacity and preferences as they were and shows an error toast
C10_FailedRefresh ==
  [][\A i \in 1..Len(fetches), status \in Statuses,
        body \in RegistryListings \cup {[t |-> "text"]} :
       (refreshDone(i, status, body) /\ RefreshFails(status, body))
         => /\ UNCHANGED <<files, totalSize, capacity, preferences>>
            /\ toasts' = <<"error">>]_vars

\* a refresh failed while the registry held records and preferences that a
\* listing would have replaced
C10_Witness ==
  /\ ev.op = "refresh-done"
  /\ ev.kind \in {"network", "http-error", "parse-error"}
  /\ toasts = <<"error">>
  /\ Len(files) = 1
  /\ capacity = 200

\* the step is the continuation of the listing request fetches[i], answered
\* with status
RefreshAnswered(i, status) ==
  /\ i \in 1..Len(fetches)
  /\ \E body \in RegistryListings \cup {[t |-> "text"]} :
       refreshDone(i, status, body)

\* the step is the continuation of the mutating request fetches[i] (share
\* creation, hide or revoke, custom URL, rename, delete), answered with status
MutationAnswered(i, status) ==
  /\ i \in 1..Len(fetches)
  /\ \/ \E body \in ShareBodies :
          shareDone(i, status, body) \/ cardShareDone(i, status, body)
     \/ \E body \in DescriptorBodies(fetches[i].fid) :
          customDone(i, status, body) \/ renameDone(i, status, body)
     \/ hideDone(i, status)
     \/ revokeDone(i, status)
     \/ deleteDone(i, status)
     \/ cardDeleteDone(i, status)

\* C18: a 401 answer to a listing, share, hide or revoke, rename, custom-URL
\* or delete request navigates to /login and ends the operation: files,
\* totalSize, capacity, preferences and the queue stay as they are and no
\* further request is sent
C18_Unauthorized ==
  [][\A i \in 1..MaxInflight :
       (RefreshAnswered(i, 401) \/ MutationAnswered(i, 401)) =>
         /\ location' = "/login"
         /\ UNCHANGED <<files, totalSize, capacity, preferences, queue>>
         /\ sent' = <<>>
         /\ fetches' = RemoveAt(fetches, i)]_vars

\* the delete request of a card was answered with 401: the page has left for
\* /login, both records are still there and no listing request was sent
C18_Witness ==
  /\ ev.op = "delete-done"
  /\ variant = "card"
  /\ ev.kind = "redirect"
  /\ location = "/login"
  /\ Len(files) = 2
  /\ sent = <<>>
  /\ fetches = <<>>

\* the toasts hold an error toast
ErrorShown(ts) == \E k \in 1..Len(ts) : ts[k] = "error"

\* C19 as stated: when a mutating request ends with a non-2xx status or a
\* transport failure, files and totalSize stay as they are and an error
\* toast is shown
C19_FailureLeavesState ==
  [][\A i \in 1..MaxInflight, status \in Statuses :
       (~IsOk(status) /\ MutationAnswered(i, status)) =>
         /\ files' = files
         /\ totalSize' = totalSize
         /\ ErrorShown(toasts')]_vars

\* C19: when a mutating request ends with a transport failure or a non-2xx
\* status, files and totalSize stay as they are; an error toast is shown
\* unless the status is 401 and the continuation returns after navigating
\* to /login
C19_FailureLeavesStateOrLogin ==
  [][\A i \in 1..MaxInflight, status \in Statuses :
       (~IsOk(status) /\ MutationAnswered(i, status)) =>
         /\ files' = files
         /\ totalSize' = totalSize
         /\ ErrorShown(toasts') \/ (status = 401 /\ location' = "/login")]_vars

\* the revoke request of a shared card failed with a 500: the record is
\* still shared and an error toast is shown
C19_Witness ==
  /\ ev.op = "revoke-done"
  /\ ev.kind = "http-error"
  /\ toasts = <<"error">>
  /\ \E k \in 1..Len(files) :
       /\ Get(files[k], "id") = ev.file
       /\ Get(files[k], "share_url") = "/s/t1"
       /\ TruthyB(files[k], "is_public")

\* a body that does not parse, or parses and lacks the field
Malformed(body, field) == body.t = "text" \/ field \notin DOMAIN body

\* the step is the continuation of the share, custom-URL or rename request
\* fetches[i], answered with 200 and a malformed body
MalformedAnswered(i) ==
  /\ i \in 1..Len(fetches)
  /\ \/ \E body \in ShareBodies :
          /\ Malformed(body, "share_url")
          /\ shareDone(i, 200, body) \/ cardShareDone(i, 200, body)
     \/ \E body \in DescriptorBodies(fetches[i].fid) :
          /\ Malformed(body, "file")
          /\ customDone(i, 200, body) \/ renameDone(i, 200, body)

\* C20: when a share, rename or custom-URL request is answered with 2xx and
\* a body that does not parse or lacks share_url or the file descriptor, the
\* registry and every field of its records stay as they are and an error
\* toast is shown
C20_MalformedBody ==
  [][\A i \in 1..MaxInflight :
       MalformedAnswered(i) =>
         /\ files' = files
         /\ totalSize' = totalSize
         /\ ErrorShown(toasts')]_vars

\* no two records of fs carry the same id
DistinctIds(fs) ==
  \A j, k \in 1..Len(fs) : j # k => Get(fs[j], "id") # Get(fs[k], "id")

\* the step is the continuation of a share, hide, revoke, rename or
\* custom-URL request that ran into insertOrUpdateFile with a record
InsertRan ==
  /\ ev'.op \in {"share-done", "card-share-done", "hide-done", "revoke-done",
                 "rename-done", "custom-done"}
  /\ ev'.kind = "ok"

\* C22: insertOrUpdateFile puts the record at the position of the record
\* with its id when there is one and in front of all records otherwise, and
\* leaves every other record and the order alone; so the records of the
\* registry carry pairwise distinct ids in every reachable state
C22_InsertOrUpdate ==
  /\ []DistinctIds(files)
  /\ [][InsertRan =>
          IF ev'.file \in Ids(files)
          THEN /\ Len(files') = Len(files)
               /\ \A k \in 1..Len(files) :
                    IF Get(files[k], "id") = ev'.file
                    THEN Get(files'[k], "id") = ev'.file
                    ELSE files'[k] = files[k]
          ELSE /\ Get(Head(files'), "id") = ev'.file
               /\ Tail(files') = files]_vars

\* a rename has been answered with a descriptor and the record of the file
\* is the first of two records
C22_Witness ==
  /\ ev.op = "rename-done"
  /\ ev.kind = "ok"
  /\ Len(files) = 2
  /\ Get(files[1], "id") = ev.file

\* the step is the continuation of the listing request fetches[i], answered
\* with 200 and the listing body
ListingAnswered(i, body) ==
  /\ i \in 1..Len(fetches)
  /\ refreshDone(i, 200, body)

\* the records without the identity of their objects
Descriptors(fs) == [k \in 1..Len(fs) |-> Strip(fs[k])]

\* the files, the total size and the capacity after the step are the ones
\* the listing carries
ListingTaken(body) ==
  /\ Descriptors(files') = body.files
  /\ totalSize' = body.total_size
  /\ capacity' = body.capacity

\* the preferences a listing carries
CarriedPreferences(body) ==
  [hideMediaDefault |-> body.preferences.hide_media_default,
   copyUrlMode |-> body.preferences.copy_url_mode]

\* C23 as stated: after a listing request is answered with 2xx, state.files,
\* state.totalSize, state.capacity and state.preferences are the values the
\* response carries, and no value held before survives in any of the four
C23_RefreshReplacesAll ==
  [][\A i \in 1..MaxInflight, body \in RegistryListings :
       ListingAnswered(i, body) =>
         /\ ListingTaken(body)
         /\ "preferences" \in DOMAIN body
         /\ preferences' = CarriedPreferences(body)]_vars

\* C23: after a listing request is answered with 2xx, state.files,
\* state.totalSize and state.capacity are the values the response carries;
\* in the table renderer hideMediaDefault is the one the response carries
\* when it carries preferences, and copyUrlMode is the one it carries when
\* that is not empty; every other preference stays as it was, and the card
\* renderer keeps no preferences
C23_RefreshReplaces ==
  [][\A i \in 1..MaxInflight, body \in RegistryListings :
       ListingAnswered(i, body) =>
         /\ ListingTaken(body)
         /\ preferences'.hideMediaDefault =
              IF variant = "table" /\ "preferences" \in DOMAIN body
              THEN body.preferences.hide_media_default
              ELSE preferences.hideMediaDefault
         /\ preferences'.copyUrlMode =
              IF /\ variant = "table"
                 /\ "preferences" \in DOMAIN body
                 /\ body.preferences.copy_url_mode # NULL
              THEN body.preferences.copy_url_mode
              ELSE preferences.copyUrlMode]_vars

\* the table renderer has taken a listing that carries preferences without
\* a link flavour, and shows the flavour it held before
C23_Witness ==
  /\ variant = "table"
  /\ ev.op = "refresh-done"
  /\ ev.kind = "replaced"
  /\ preferences.hideMediaDefault
  /\ preferences.copyUrlMode = "download"

\* the body of a share-creation answer that carries all three share fields
CompleteShareBody ==
  [t |-> "object", share_url |-> "/s/t1", share_raw_url |-> "/s/t1/raw",
   share_token |-> "t1"]

ShareFields == {"share_url", "share_raw_url", "share_token", "is_public"}

\* the step is the continuation of the share-creation request fetches[i],
\* answered with 200 and all three share fields
ShareCreated(i) ==
  /\ i \in 1..Len(fetches)
  /\ \/ shareDone(i, 200, CompleteShareBody)
     \/ cardShareDone(i, 200, CompleteShareBody)

\* C24: when a share-creation request for file f is answered with 2xx and
\* share_url, share_raw_url and share_token, the record of f in the registry
\* carries the three returned values and is_public = true afterwards, every
\* other field of f and every other record is as before, and the record now
\* in the registry is the value returned
C24_ShareMerged ==
  [][\A i \in 1..MaxInflight :
       ShareCreated(i) =>
         LET id == fetches[i].fid
             before == fetches[i].file
             at == FindIndex(files', id)
         IN /\ at # 0
            /\ Get(files'[at], "share_url") = CompleteShareBody.share_url
            /\ Get(files'[at], "share_raw_url") = CompleteShareBody.share_raw_url
            /\ Get(files'[at], "share_token") = CompleteShareBody.share_token
            /\ Get(files'[at], "is_public") = TRUE
            /\ \A f \in DOMAIN before \ ShareFields :
                 f \in DOMAIN files'[at] /\ files'[at][f] = before[f]
            /\ DOMAIN files'[at] \subseteq DOMAIN before \cup ShareFields
            /\ FilterOutId(files', id) = FilterOutId(files, id)
            /\ ret' = files'[at]]_vars

-----------------------------------------------------------------------------
(* The file registry of a viewer who may not manage every file listed *)

\* a file of another user: the viewer may open it and nothing else
ReadOnlyFile(id) == [PlainFile(id) EXCEPT !.can_manage = FALSE]

InitViewer ==
  /\ \E v \in {"table", "card"}, mode \in Modes :
       InitState(v, <<ReadOnlyFile("f1"), HalfSharedFile("f2")>>,
                 IF v = "table" THEN mode ELSE "view")
  /\ server = <<>> /\ answers = <<>>

SpecViewer == InitViewer /\ [][NextRegistry]_vars

\* the requests that change something on the server
MutatingOps ==
  {"share", "card-share", "hide", "revoke", "rename", "custom", "delete",
   "card-delete"}

\* the record a request is about: the object its handler holds, or the
\* record the handler found by id
RequestedFile(request) ==
  IF request.file # NoFile THEN request.file
  ELSE files[FindIndex(files, request.fid)]

\* file.can_manage === false
FlaggedUnmanageable(file) ==
  "can_manage" \in DOMAIN file /\ file.can_manage = FALSE

\* C28: no handler issues a share-creation, share-deletion, rename,
\* custom-URL or delete request for a file whose can_manage is false,
\* whatever copyUrlMode is
C28_NoMutationWithoutManage ==
  [][(/\ Len(fetches') = Len(fetches) + 1
      /\ fetches'[Len(fetches')].op \in MutatingOps)
       => ~FlaggedUnmanageable(RequestedFile(fetches'[Len(fetches')]))]_vars

-----------------------------------------------------------------------------
(* The table renderer under a user who does not wait: a custom-URL request, *)
(* a delete request and the refresh of the page load overlap                *)

InitOverlap ==
  InitState("table", <<PlainFile("f1"), HalfSharedFile("f2")>>, "view")
  /\ server = <<>> /\ answers = <<>>

OverlapRefreshDone ==
  /\ PageAlive
  /\ Untracked
  /\ \E i \in 1..Len(fetches), status \in {200, 500} :
       refreshDone(i, status, FullListing)

OverlapCustomClick ==
  /\ PageAlive
  /\ Untracked
  /\ \E i \in 1..Len(dom) : customClick(i)

OverlapCustomDone ==
  /\ PageAlive
  /\ Untracked
  /\ \E i \in 1..Len(fetches), status \in {200, 500} :
       \E body \in DescriptorBodies(fetches[i].fid) : customDone(i, status, body)

OverlapDeleteClick ==
  /\ PageAlive
  /\ Untracked
  /\ \E i \in 1..Len(dom) : deleteClick(i)

OverlapDeleteDone ==
  /\ PageAlive
  /\ Untracked
  /\ \E i \in 1..Len(fetches), status \in {200, 500} : deleteDone(i, status)

NextOverlap ==
  \/ OverlapRefreshDone
  \/ OverlapCustomClick
  \/ OverlapCustomDone
  \/ OverlapDeleteClick
  \/ OverlapDeleteDone

SpecOverlap == InitOverlap /\ [][NextOverlap]_vars

-----------------------------------------------------------------------------
(* Both renderers against a server that keeps the files: a request is       *)
(* handled by the server at one moment and its response reaches the page at *)
(* a later one, and responses arrive in any order                           *)

RaceFiles == <<PlainFile("f1"), SharedFile("f2")>>

\* answers[i] while the server has not handled fetches[i]
NoAnswer == [t |-> "none"]

\* the server's files after it has handled the request
ServedFiles(request) ==
  IF request.fid \notin Ids(server) THEN server
  ELSE IF request.op \in {"delete", "card-delete"}
       THEN FilterOutId(server, request.fid)
       ELSE IF request.op \in {"hide", "revoke"}
            THEN [k \in 1..Len(server) |->
                    IF Get(server[k], "id") = request.fid
                    THEN Strip(HiddenRecord(server[k])) ELSE server[k]]
            ELSE server

\* the response the server builds for the request
ServedAnswer(request) ==
  IF request.op = "refresh"
  THEN [t |-> "answer", status |-> 200, body |-> Listing(server, FALSE)]
  ELSE [t |-> "answer", body |-> [t |-> "empty"],
        status |-> IF request.fid \in Ids(server) THEN 200 ELSE 404]

\* the handler that ran issued one more request
AnswersAfterClick ==
  IF Len(fetches') > Len(fetches) THEN Append(answers, NoAnswer) ELSE answers

\* the continuation of fetches[i] ran and perhaps issued a request of its own
AnswersAfterDone(i) ==
  LET rest == RemoveAt(answers, i)
  IN IF Len(fetches') > Len(rest) THEN Append(rest, NoAnswer) ELSE rest

Answered(i) == i \in 1..Len(fetches) /\ answers[i].t = "answer"

InitRace ==
  /\ \E v \in {"table", "card"} : InitState(v, RaceFiles, "view")
  /\ server = RaceFiles
  /\ answers = <<NoAnswer>>

\* the server handles one request in flight
RaceServe ==
  /\ PageAlive
  /\ \E i \in 1..Len(fetches) :
       /\ answers[i] = NoAnswer
       /\ answers' = [answers EXCEPT ![i] = ServedAnswer(fetches[i])]
       /\ server' = ServedFiles(fetches[i])
  /\ UNCHANGED <<variant, files, totalSize, capacity, preferences, dom, queue,
                 xhr, timers, fetches, location, toasts, sent, ret, ev>>

RaceRefreshClick ==
  /\ PageAlive
  /\ refreshClick
  /\ answers' = AnswersAfterClick
  /\ UNCHANGED server

RaceRefreshDone ==
  /\ PageAlive
  /\ \E i \in 1..Len(fetches) :
       /\ Answered(i)
       /\ refreshDone(i, answers[i].status, answers[i].body)
       /\ answers' = AnswersAfterDone(i)
  /\ UNCHANGED server

RaceDeleteClick ==
  /\ PageAlive
  /\ \E i \in 1..Len(dom) : deleteClick(i)
  /\ answers' = AnswersAfterClick
  /\ UNCHANGED server

RaceDeleteDone ==
  /\ PageAlive
  /\ \E i \in 1..Len(fetches) :
       /\ Answered(i)
       /\ deleteDone(i, answers[i].status)
       /\ answers' = AnswersAfterDone(i)
  /\ UNCHANGED server

RaceCardDeleteClick ==
  /\ PageAlive
  /\ \E i \in 1..Len(dom) : cardDeleteClick(i)
  /\ answers' = AnswersAfterClick
  /\ UNCHANGED server

RaceCardDeleteDone ==
  /\ PageAlive
  /\ \E i \in 1..Len(fetches) :
       /\ Answered(i)
       /\ cardDeleteDone(i, answers[i].status)
       /\ answers' = AnswersAfterDone(i)
  /\ UNCHANGED server

RaceHideClick ==
  /\ PageAlive
  /\ \E i \in 1..Len(dom) : hideClick(i)
  /\ answers' = AnswersAfterClick
  /\ UNCHANGED server

RaceHideDone ==
  /\ PageAlive
  /\ \E i \in 1..Len(fetches) :
       /\ Answered(i)
       /\ hideDone(i, answers[i].status)
       /\ answers' = AnswersAfterDone(i)
  /\ UNCHANGED server

RaceRevokeClick ==
  /\ PageAlive
  /\ \E i \in 1..Len(dom) : revokeClick(i)
  /\ answers' = AnswersAfterClick
  /\ UNCHANGED server

RaceRevokeDone ==
  /\ PageAlive
  /\ \E i \in 1..Len(fetches) :
       /\ Answered(i)
       /\ revokeDone(i, answers[i].status)
       /\ answers' = AnswersAfterDone(i)
  /\ UNCHANGED server

NextRace ==
  \/ RaceServe
  \/ RaceRefreshClick
  \/ RaceRefreshDone
  \/ RaceDeleteClick
  \/ RaceDeleteDone
  \/ RaceCardDeleteClick
  \/ RaceCardDeleteDone
  \/ RaceHideClick
  \/ RaceHideDone
  \/ RaceRevokeClick
  \/ RaceRevokeDone

SpecRace == InitRace /\ [][NextRace]_vars

-----------------------------------------------------------------------------
(* The table renderer uploading to a server that keeps the files and has    *)
(* room for one: it stores an uploaded file under an id it does not use and *)
(* lists it from then on                                                    *)

\* the ids the server hands out, in their order
ServerIds == <<"f1">>

\* the id the server gives to the next uploaded file, "" when it is full
NextId ==
  IF \A k \in 1..Len(ServerIds) : ServerIds[k] \in Ids(server) THEN ""
  ELSE ServerIds[CHOOSE k \in 1..Len(ServerIds) :
                   /\ ServerIds[k] \notin Ids(server)
                   /\ \A j \in 1..(k - 1) : ServerIds[j] \in Ids(server)]

InitUploadRace ==
  /\ InitState("table", <<>>, "view")
  /\ server = <<>>
  /\ answers = <<NoAnswer>>

\* the server stores the file of item id's request and the load event
\* arrives with the descriptor, or the server is full and answers 500
UploadRaceLoad ==
  /\ PageAlive
  /\ \E id \in 1..MaxQueue :
       IF NextId # ""
       THEN /\ uploadLoad(id, 200, [t |-> "object", files |-> <<PlainFile(NextId)>>])
            /\ server' = Append(server, PlainFile(NextId))
       ELSE /\ uploadLoad(id, 500, [t |-> "object", message |-> "Kein Speicherplatz."])
            /\ server' = server
  /\ answers' = AnswersAfterClick

NextUploadRace ==
  \/ LiveAddFiles
  \/ StartUpload
  \/ UploadRaceLoad
  \/ RaceServe
  \/ RaceRefreshDone
  \/ RaceDeleteClick
  \/ RaceDeleteDone

SpecUploadRace == InitUploadRace /\ [][NextUploadRace]_vars

-----------------------------------------------------------------------------
(* Properties of the registry against the server's files *)

\* the ids of the records, in their order
IdsInOrder(s) == [k \in 1..Len(s) |-> Get(s[k], "id")]

\* the server has deleted the file
DeletedOnServer(id) == id \in Ids(RaceFiles) /\ id \notin Ids(server)

\* C21: once the server has deleted a file and no request is in flight any
\* more, the registry holds no record of the file and lists the files the
\* server holds
C21_SettledAfterDelete ==
  \A id \in Ids(RaceFiles) :
    (DeletedOnServer(id) /\ fetches = <<>>) =>
      /\ id \notin Ids(files)
      /\ IdsInOrder(files) = IdsInOrder(server)

\* C26: a record that an upload has merged stays in the registry as long as
\* the server holds the file, that is until a delete of the file succeeds;
\* every listing the server produces from the upload on contains the file
C26_UploadedStays ==
  [][\A k \in 1..Len(ServerIds) :
       (ServerIds[k] \in Ids(files) /\ ServerIds[k] \in Ids(server))
         => ServerIds[k] \in Ids(files')]_vars

\* the delete of the file has been answered and its continuation has run
DeleteCompleted(id) ==
  /\ DeletedOnServer(id)
  /\ \A k \in 1..Len(fetches) :
       fetches[k].fid = id => fetches[k].op \notin {"delete", "card-delete"}

\* the step is the continuation of the hide or revoke request fetches[i],
\* which the server handled while it held the file
EarlierActionCompleted(i) ==
  /\ Answered(i)
  /\ answers[i].status = 200
  /\ hideDone(i, 200) \/ revokeDone(i, 200)

\* C27: once a delete of a file has succeeded and the registry holds no
\* record of it, the completion of an action on the file that was started
\* before the delete puts no record of the file back
C27_DeletedStaysOut ==
  [][\A i \in 1..MaxInflight :
       (/\ EarlierActionCompleted(i)
        /\ DeleteCompleted(fetches[i].fid)
        /\ fetches[i].fid \notin Ids(files))
         => fetches[i].fid \notin Ids(files')]_vars

====
